---- MODULE Spec2Model ----
(***************************************************************************)
(* Model of mcp-ipfs: an MCP server whose tools shell out to the w3 CLI.   *)
(*                                                                         *)
(* Text is modelled as a sequence of chunks.  A chunk is one character     *)
(* (" ", "\n", "1", "{", ...) or an indivisible piece of text that no      *)
(* operation of the program ever cuts ("did:key:", "Stored", a fixed       *)
(* message, an argument value).                                            *)
(***************************************************************************)
EXTENDS Integers, Sequences, FiniteSets, TLC

(***************************************************************************)
(* Bounds of the model.                                                    *)
(***************************************************************************)
MaxNdJsonLen == 5
MaxListingLen == 6
MaxCalls == 2

VARIABLES
    server,      \* main(): state "starting", "listening" or "exited" (with
                 \* the exit status)
    loginEmail,  \* process.env["W3_LOGIN_EMAIL"] ("" when unset or empty)
    pc,          \* per call: "idle", "awaiting" (the subprocess), "replied"
    tool,        \* per call: request.params.name
    args,        \* per call: request.params.arguments
    proc,        \* per call: the subprocess started by execPromise
    spawned,     \* per call: how many subprocesses the call has started
    reply,       \* per call: the value returned by the CallTool handler
    log,         \* per call: what the call wrote through logger
    catalog,     \* the latest response to a ListTools request
    failed,      \* an error reply has been sent to a client
    ndjson,      \* argument of parseNdJson
    parsed,      \* outcome of parseNdJson(ndjson)
    stdout,      \* stdout of w3 space ls
    listing      \* outcome of the listing loop of handleW3SpaceLs on stdout

vars == <<server, loginEmail, pc, tool, args, proc, spawned, reply, log,
          catalog, failed, ndjson, parsed, stdout, listing>>

(***************************************************************************)
(* JavaScript string primitives over chunk sequences.                      *)
(***************************************************************************)
WhiteSpace == {" ", "\n", "\t", "\r"}

IsWs(c) == c \in WhiteSpace

Min(a, b) == IF a < b THEN a ELSE b

\* String.prototype.substring(from) / substring(0, n)
Drop(s, n) == SubSeq(s, n + 1, Len(s))

Take(s, n) == SubSeq(s, 1, Min(n, Len(s)))

RECURSIVE TrimStart(_)
TrimStart(s) ==
    IF s # <<>> /\ IsWs(s[1]) THEN TrimStart(Tail(s)) ELSE s

RECURSIVE TrimEnd(_)
TrimEnd(s) ==
    IF s # <<>> /\ IsWs(s[Len(s)]) THEN TrimEnd(SubSeq(s, 1, Len(s) - 1)) ELSE s

\* String.prototype.trim()
Trim(s) == TrimEnd(TrimStart(s))

\* String.prototype.startsWith(prefix)
StartsWith(s, prefix) ==
    Len(s) >= Len(prefix) /\ SubSeq(s, 1, Len(prefix)) = prefix

\* s.endsWith(suffix)
EndsWith(s, suffix) ==
    Len(s) >= Len(suffix)
    /\ SubSeq(s, Len(s) - Len(suffix) + 1, Len(s)) = suffix

\* String.prototype.split(sep) for a one-character separator
RECURSIVE Split(_, _)
Split(s, sep) ==
    IF \A i \in 1..Len(s) : s[i] # sep
    THEN <<s>>
    ELSE LET i == CHOOSE k \in 1..Len(s) :
                      s[k] = sep /\ \A j \in 1..(k - 1) : s[j] # sep
         IN  <<SubSeq(s, 1, i - 1)>> \o Split(Drop(s, i), sep)

\* String.prototype.split(/\s+/)
RECURSIVE SplitWs(_)
SplitWs(s) ==
    IF \A i \in 1..Len(s) : ~IsWs(s[i])
    THEN <<s>>
    ELSE LET i == CHOOSE k \in 1..Len(s) :
                      IsWs(s[k]) /\ \A j \in 1..(k - 1) : ~IsWs(s[j])
         IN  <<SubSeq(s, 1, i - 1)>> \o SplitWs(TrimStart(Drop(s, i - 1)))

\* Array.prototype.join(sep)
RECURSIVE Join(_, _)
Join(parts, sep) ==
    IF parts = <<>> THEN <<>>
    ELSE IF Len(parts) = 1 THEN parts[1]
    ELSE parts[1] \o sep \o Join(Tail(parts), sep)

(***************************************************************************)
(* JSON.parse.  The only chunks of the model that can occur in a JSON text *)
(* outside a string literal are the digit "1", the braces and white space, *)
(* so the JSON texts are the numbers 1, 11, 111, ... and the empty object, *)
(* each with optional white space around (and inside the braces).          *)
(***************************************************************************)
JsonWs == {" ", "\n", "\t", "\r"}

RECURSIVE Decimal(_)
Decimal(digits) ==
    IF digits = <<>> THEN 0
    ELSE 10 * Decimal(SubSeq(digits, 1, Len(digits) - 1)) + 1

JsonNumber(n) == [type |-> "number", value |-> n]

JsonObject == [type |-> "object", value |-> 0]

SyntaxError == [type |-> "SyntaxError", value |-> 0]

RECURSIVE StripJsonWs(_)
StripJsonWs(s) ==
    IF s # <<>> /\ s[1] \in JsonWs THEN StripJsonWs(Tail(s))
    ELSE IF s # <<>> /\ s[Len(s)] \in JsonWs
         THEN StripJsonWs(SubSeq(s, 1, Len(s) - 1))
         ELSE s

JSONParse(text) ==
    LET t == StripJsonWs(text)
    IN  IF t # <<>> /\ \A i \in 1..Len(t) : t[i] = "1"
        THEN JsonNumber(Decimal(t))
        ELSE IF /\ Len(t) >= 2
                /\ t[1] = "{"
                /\ t[Len(t)] = "}"
                /\ \A i \in 2..(Len(t) - 1) : t[i] \in JsonWs
             THEN JsonObject
             ELSE SyntaxError

(***************************************************************************)
(* parseNdJson (utils).                                                    *)
(***************************************************************************)
LineLogLimit == 100

\* ndjsonLines without its filter of blank lines
ndjsonLinesUnfiltered(text) == Split(Trim(text), "\n")

\* lines of parseNdJson: trim, split at "\n", drop the blank lines
ndjsonLines(text) ==
    SelectSeq(Split(Trim(text), "\n"), LAMBDA line : Trim(line) # <<>>)

\* the logger.error call of the inner catch
ndjsonLineLog(line, index) ==
    [level   |-> "error",
     event   |-> "ndjson-line",
     index   |-> index,
     content |-> Take(line, LineLogLimit)
                 \o (IF Len(line) > LineLogLimit THEN <<"...">> ELSE <<>>)]

\* the logger.error call of the outer catch
ndjsonLog == [level |-> "error", event |-> "ndjson"]

ndjsonErrorMessage ==
    <<"Failed to parse NDJSON output. Error: ", "<SyntaxError>",
      ". Please check w3cli output format.">>

\* parseNdJson that skips a line it cannot parse instead of throwing
parseNdJsonLenient(text) ==
    LET lines == SelectSeq(Split(Trim(text), "\n"),
                           LAMBDA line : JSONParse(line) # SyntaxError)
    IN  [threw   |-> FALSE,
         records |-> [i \in 1..Len(lines) |-> JSONParse(lines[i])],
         logs    |-> <<>>]

\* Array.prototype.map stops at the first line whose JSON.parse throws.
parseNdJson(text) ==
    LET lines == ndjsonLines(text)
        bad   == {i \in 1..Len(lines) : JSONParse(lines[i]) = SyntaxError}
    IN  IF bad = {}
        THEN [threw   |-> FALSE,
              records |-> [i \in 1..Len(lines) |-> JSONParse(lines[i])],
              logs    |-> <<>>]
        ELSE LET first == CHOOSE i \in bad : \A j \in bad : i <= j
             IN  [threw   |-> TRUE,
                  message |-> ndjsonErrorMessage,
                  logs    |-> <<ndjsonLineLog(lines[first], first), ndjsonLog>>]

(***************************************************************************)
(* The listing loop of handleW3SpaceLs.  spaces is the array the code      *)
(* builds (a property whose value is undefined is left out, which is also  *)
(* how JSON.stringify writes it); origin records, for every element of     *)
(* spaces, the number of the stdout line it was read from.                 *)
(***************************************************************************)
\* spaceLsLine that takes the second token alone as the name
spaceLsLineSecondToken(rawLine) ==
    LET line        == Trim(rawLine)
        isCurrent   == StartsWith(line, <<"*">>)
        trimmedLine == IF isCurrent THEN Trim(Drop(line, 1)) ELSE line
        parts       == SplitWs(trimmedLine)
        did         == parts[1]
    IN  [push   |-> /\ line # <<>>
                    /\ did # <<>>
                    /\ StartsWith(did, <<"did:key:">>),
         record |-> IF Len(parts) > 1
                    THEN [did |-> did, name |-> parts[2], isCurrent |-> isCurrent]
                    ELSE [did |-> did, isCurrent |-> isCurrent]]

\* spaceLsLine that strips the marker but never sets isCurrent
spaceLsLineNeverCurrent(rawLine) ==
    LET line        == Trim(rawLine)
        trimmedLine == IF StartsWith(line, <<"*">>) THEN Trim(Drop(line, 1))
                       ELSE line
        parts       == SplitWs(trimmedLine)
        did         == parts[1]
    IN  [push   |-> /\ line # <<>>
                    /\ did # <<>>
                    /\ StartsWith(did, <<"did:key:">>),
         record |-> IF Len(parts) > 1
                    THEN [did       |-> did,
                          name      |-> Join(Tail(parts), <<" ">>),
                          isCurrent |-> FALSE]
                    ELSE [did |-> did, isCurrent |-> FALSE]]

\* one iteration of the loop: is a record pushed for this line, and which
spaceLsLine(rawLine) ==
    LET line        == Trim(rawLine)
        isCurrent   == StartsWith(line, <<"*">>)
        trimmedLine == IF isCurrent THEN Trim(Drop(line, 1)) ELSE line
        parts       == SplitWs(trimmedLine)
        did         == parts[1]
    IN  [push   |-> /\ line # <<>>
                    /\ did # <<>>
                    /\ StartsWith(did, <<"did:key:">>),
         record |-> IF Len(parts) > 1
                    THEN [did       |-> did,
                          name      |-> Join(Tail(parts), <<" ">>),
                          isCurrent |-> isCurrent]
                    ELSE [did |-> did, isCurrent |-> isCurrent]]

RECURSIVE spaceLsLoop(_, _)
spaceLsLoop(lines, i) ==
    IF i > Len(lines) THEN [spaces |-> <<>>, origin |-> <<>>]
    ELSE LET rest == spaceLsLoop(lines, i + 1)
             step == spaceLsLine(lines[i])
         IN  IF step.push
             THEN [spaces |-> <<step.record>> \o rest.spaces,
                   origin |-> <<i>> \o rest.origin]
             ELSE rest

spaceLsLines(text) == Split(Trim(text), "\n")

spaceLsListing(text) == spaceLsLoop(spaceLsLines(text), 1)

(***************************************************************************)
(* Argument values and the zod schemas (schemas.ts).  A value carries its  *)
(* JavaScript type; request.params.arguments is an object or is missing.   *)
(***************************************************************************)
Str(s) == [type |-> "string", value |-> s]

Bool(b) == [type |-> "boolean", value |-> b]

Num(n) == [type |-> "number", value |-> n]

Arr(a) == [type |-> "array", value |-> a]

NoArguments == [type |-> "undefined"]

Object(fields) == [type |-> "object", value |-> fields]

NoFields == [k \in {} |-> Str(<<>>)]

\* z.string(), z.boolean(), z.array(z.string()).min(1), ...
ZField(type, check) ==
    [type |-> type, check |-> check, optional |-> FALSE,
     hasDefault |-> FALSE, default |-> FALSE]

ZString == ZField("string", "none")

ZDidKey == ZField("string", "startsWith")

ZStringArrayMin1 == ZField("array", "min1")

ZEnumType == ZField("string", "enum")

\* a confirmation that may be any string
ZLiteralResetAnyString == ZField("string", "none")

\* z.literal("yes-i-am-sure")
ZLiteralReset == ZField("string", "literal")

ZIntPositive == ZField("number", "intPositive")

ZOptional(f) == [f EXCEPT !.optional = TRUE]

ZBooleanDefault(b) ==
    [type |-> "boolean", check |-> "none", optional |-> TRUE,
     hasDefault |-> TRUE, default |-> b]

W3LoginArgsSchema == [k \in {} |-> ZString]

W3SpaceLsArgsSchema == [k \in {} |-> ZString]

W3SpaceUseArgsSchema == [spaceDid |-> ZDidKey]

W3SpaceCreateArgsSchema == [name |-> ZOptional(ZString)]

W3UpArgsSchema ==
    [paths  |-> ZStringArrayMin1,
     noWrap |-> ZBooleanDefault(FALSE),
     hidden |-> ZBooleanDefault(FALSE)]

\* a schema of w3_ls whose json is off unless the caller asks for it
W3LsArgsSchemaJsonOff == [json |-> ZBooleanDefault(FALSE)]

W3LsArgsSchema == [json |-> ZBooleanDefault(TRUE)]

W3RmArgsSchema == [cid |-> ZString, removeShards |-> ZBooleanDefault(FALSE)]

W3OpenArgsSchema == [cid |-> ZString, path |-> ZOptional(ZString)]

W3SpaceInfoArgsSchema ==
    [spaceDid |-> ZOptional(ZDidKey), json |-> ZBooleanDefault(TRUE)]

W3SpaceAddArgsSchema == [proof |-> ZString]

W3DelegationCreateArgsSchema ==
    [audienceDid  |-> ZString,
     capabilities |-> ZStringArrayMin1,
     name         |-> ZOptional(ZString),
     type         |-> ZOptional(ZEnumType),
     output       |-> ZOptional(ZString),
     base64       |-> ZBooleanDefault(FALSE)]

W3DelegationLsArgsSchema == [json |-> ZBooleanDefault(TRUE)]

W3DelegationRevokeArgsSchema ==
    [delegationCid |-> ZString, proof |-> ZOptional(ZString)]

W3ProofAddArgsSchema == [proofPath |-> ZString]

W3ProofLsArgsSchema == [json |-> ZBooleanDefault(TRUE)]

W3KeyCreateArgsSchema == [json |-> ZBooleanDefault(FALSE)]

W3BridgeGenerateTokensArgsSchema ==
    [capabilities |-> ZStringArrayMin1,
     expiration   |-> ZOptional(ZIntPositive),
     json         |-> ZBooleanDefault(TRUE)]

W3CanBlobAddArgsSchema == [path |-> ZString]

W3CanBlobLsArgsSchema ==
    [json   |-> ZBooleanDefault(TRUE),
     size   |-> ZOptional(ZIntPositive),
     cursor |-> ZOptional(ZString)]

W3CanBlobRmArgsSchema == [multihash |-> ZString]

W3CanIndexAddArgsSchema == [cid |-> ZString]

W3CanUploadAddArgsSchema == [rootCid |-> ZString, shardCids |-> ZStringArrayMin1]

W3CanUploadLsArgsSchema ==
    [json   |-> ZBooleanDefault(TRUE),
     shards |-> ZBooleanDefault(FALSE),
     size   |-> ZOptional(ZIntPositive),
     cursor |-> ZOptional(ZString),
     pre    |-> ZBooleanDefault(FALSE)]

W3CanUploadRmArgsSchema == [rootCid |-> ZString]

W3PlanGetArgsSchema == [accountId |-> ZOptional(ZString)]

W3AccountLsArgsSchema == [k \in {} |-> ZString]

W3SpaceProvisionArgsSchema == [customerId |-> ZString, spaceDid |-> ZDidKey]

W3CouponCreateArgsSchema == [claimCode |-> ZString]

W3UsageReportArgsSchema ==
    [spaceDid |-> ZOptional(ZDidKey), json |-> ZBooleanDefault(TRUE)]

W3CanAccessClaimArgsSchema == [proof |-> ZString]

W3CanStoreAddArgsSchema == [path |-> ZString]

W3CanStoreLsArgsSchema ==
    [json   |-> ZBooleanDefault(TRUE),
     size   |-> ZOptional(ZIntPositive),
     cursor |-> ZOptional(ZString)]

W3CanStoreRmArgsSchema == [carCid |-> ZString]

W3CanFilecoinInfoArgsSchema == [pieceCid |-> ZString]

W3ResetArgsSchema == [confirmReset |-> ZLiteralReset]

\* does value v pass the field schema f
FieldAccepts(f, v) ==
    /\ v.type = f.type
    /\ CASE f.check = "none"        -> TRUE
         [] f.check = "startsWith"  -> StartsWith(v.value, <<"did:key:">>)
         [] f.check = "min1"        -> Len(v.value) >= 1
         [] f.check = "intPositive" -> v.value > 0
         [] f.check = "enum"        ->
                v.value \in {<<"device">>, <<"app">>, <<"service">>}
         [] f.check = "literal"     -> v.value = <<"yes-i-am-sure">>

\* schema.safeParse(a): z.object strips the keys the schema does not name and
\* fills in the defaults of the keys the caller left out.
safeParse(schema, a) ==
    LET isObject == a.type = "object"
        given(k) == isObject /\ k \in DOMAIN a.value
    IN  [success |->
             /\ isObject
             /\ \A k \in DOMAIN schema :
                    IF given(k) THEN FieldAccepts(schema[k], a.value[k])
                    ELSE schema[k].optional \/ schema[k].hasDefault,
         data |->
             [k \in {f \in DOMAIN schema : given(f) \/ schema[f].hasDefault} |->
                 IF given(k) THEN a.value[k].value ELSE schema[k].default]]

(***************************************************************************)
(* Replies, thrown errors and the outcome of a stretch of handler code.    *)
(* JSON.stringify(object) is the text that denotes object.               *)
(***************************************************************************)
JSONStringify(object) == [json |-> object]

\* { content: [{ type: "text", text: JSON.stringify(object) }] }
TextReply(object) ==
    [content |-> <<[type |-> "text", text |-> JSONStringify(object)]>>]

\* { content: [...{ error: message }...], isError: true }
ErrorReply(message) ==
    [content |-> <<[type |-> "text",
                    text |-> JSONStringify([error |-> message])]>>,
     isError |-> TRUE]

Throw(message, logs) == [kind |-> "throw", message |-> message, logs |-> logs]

Return(object, logs) ==
    [kind |-> "return", reply |-> TextReply(object), logs |-> logs]

Exec(command, logs) == [kind |-> "exec", command |-> command, logs |-> logs]

Log(level, event) == [level |-> level, event |-> event]

\* throw new Error(Invalid arguments for ${name}: ${parsed.error.message})
InvalidArguments(name) ==
    Throw(<<"Invalid arguments for ", name, ": ", "<ZodError>">>, <<>>)

\* a value is truthy: if (spaceDid), if (size)
TruthyString(data, k) == k \in DOMAIN data /\ data[k] # <<>>

TruthyNumber(data, k) == k \in DOMAIN data /\ data[k] # 0

\* ${n} for a number n
NumberToString(n) == <<ToString(n)>>

\* the text appended when flag holds: if (flag) command += text
When(flag, text) == IF flag THEN text ELSE <<>>

Quoted(text) == <<"\"">> \o text \o <<"\"">>

\* capabilities.forEach((cap) => { command +=  --can '${cap}'; })
CanOptions(capabilities) ==
    Join([i \in 1..Len(capabilities) |->
              <<" --can '">> \o capabilities[i] \o <<"'">>], <<>>)

(***************************************************************************)
(* runW3Command: the part before execPromise and the part that runs when   *)
(* the subprocess has settled.  out is what exec reports: status "ok"    *)
(* (exit status zero), "exit" (non-zero exit status) or "spawn" (the       *)
(* process could not be started), with the captured stdout and stderr.     *)
(***************************************************************************)
runW3CommandLog == <<Log("debug", "executing")>>

\* error.message of the error exec rejects with
ExecErrorMessage(out) ==
    IF out.status = "exit" THEN <<"<Command failed>">> ELSE <<"<spawn error>">>

\* runW3CommandError that leaves the captured stderr out
runW3CommandErrorWithoutStderr(command, out) ==
    <<"Failed to execute 'w3 ">> \o command \o <<"': ">> \o ExecErrorMessage(out)

runW3CommandError(command, out) ==
    LET errorMessage == IF out.stderr # <<>>
                        THEN ExecErrorMessage(out) \o <<"\nStderr: ">> \o out.stderr
                        ELSE ExecErrorMessage(out)
    IN  <<"Failed to execute 'w3 ">> \o command \o <<"': ">> \o errorMessage

\* a runW3Command that takes any output on stderr for a failure
runW3CommandStderrFails(command, out) ==
    IF out.status = "ok" /\ out.stderr = <<>>
    THEN [threw  |-> FALSE,
          stdout |-> out.stdout,
          stderr |-> out.stderr,
          logs   |-> <<Log("debug", "stdout")>>]
    ELSE [threw   |-> TRUE,
          message |-> runW3CommandError(command, out),
          logs    |-> <<Log("error", "exec-error")>>]

runW3Command(command, out) ==
    IF out.status = "ok"
    THEN [threw  |-> FALSE,
          stdout |-> out.stdout,
          stderr |-> out.stderr,
          logs   |-> When(out.stderr # <<>>, <<Log("warn", "stderr")>>)
                     \o <<Log("debug", "stdout")>>]
    ELSE [threw   |-> TRUE,
          message |-> runW3CommandError(command, out),
          logs    |-> <<Log("error", "exec-error")>>]

(***************************************************************************)
(* Tool handlers (tool_handlers.ts).  For a handler handleX, handleX(a) is *)
(* the code up to await runW3Command(...) on arguments a, and          *)
(* handleXResume(a, out) the code after it, out being the resolved       *)
(* { stdout, stderr }.                                                     *)
(***************************************************************************)
\* a login that takes the email from the arguments when they carry one
handleW3LoginCallerEmail(a, email) ==
    IF a.type = "object" /\ "email" \in DOMAIN a.value
    THEN Exec(<<"login ">> \o a.value["email"].value, <<Log("info", "login")>>)
    ELSE Exec(<<"login ">> \o email, <<Log("info", "login")>>)

handleW3Login(a, email) ==
    Exec(<<"login ">> \o email, <<Log("info", "login")>>)

handleW3LoginResume(a, out, email) ==
    Return([message |->
                <<"Login process initiated for ">> \o email
                \o <<". Output from w3:\nStdout: ">> \o out.stdout
                \o <<"\nStderr: ">> \o out.stderr
                \o <<"\nPlease check your email to complete the login.">>],
           <<>>)

handleW3SpaceLs(a) ==
    IF ~safeParse(W3SpaceLsArgsSchema, a).success
    THEN InvalidArguments("w3_space_ls")
    ELSE Exec(<<"space ls">>, <<>>)

handleW3SpaceLsResume(a, out) ==
    Return([spaces |-> spaceLsListing(out.stdout).spaces], <<>>)

handleW3SpaceUse(a) ==
    LET p == safeParse(W3SpaceUseArgsSchema, a)
    IN  IF ~p.success THEN InvalidArguments("w3_space_use")
        ELSE Exec(<<"space use ">> \o p.data["spaceDid"], <<>>)

handleW3SpaceUseResume(a, out) ==
    LET data == safeParse(W3SpaceUseArgsSchema, a).data
    IN  Return([message |-> <<"Successfully set current space to ">>
                            \o data["spaceDid"],
                output  |-> Trim(out.stdout)], <<>>)

\* a handler that reports the space as created
handleW3SpaceCreateAccepts(a) ==
    Return([message |-> <<"Space created.">>], <<>>)

\* (the message is written here without its two backquotes)
handleW3SpaceCreate(a) ==
    Throw(<<"w3 space create cannot be run via MCP due to interactive recovery key prompts. Please run this command manually in your terminal.">>,
          <<>>)

\* a handler that hands the paths to the command as they are, without quotes
handleW3UpUnquoted(a) ==
    LET p == safeParse(W3UpArgsSchema, a)
        paths == p.data["paths"]
    IN  IF ~p.success THEN InvalidArguments("w3_up")
        ELSE Exec(<<"up ">> \o Join(paths, <<" ">>)
                  \o When(p.data["noWrap"], <<" --no-wrap">>)
                  \o When(p.data["hidden"], <<" --hidden">>), <<>>)

handleW3Up(a) ==
    LET p == safeParse(W3UpArgsSchema, a)
        paths == p.data["paths"]
        quotedPaths == Join([i \in 1..Len(paths) |-> Quoted(paths[i])], <<" ">>)
    IN  IF ~p.success THEN InvalidArguments("w3_up")
        ELSE Exec(<<"up ">> \o quotedPaths
                  \o When(p.data["noWrap"], <<" --no-wrap">>)
                  \o When(p.data["hidden"], <<" --hidden">>), <<>>)

handleW3UpResume(a, out) ==
    Return([message |-> <<"Upload successful.">>,
            output  |-> Trim(out.stdout)], <<>>)

handleW3Ls(a) ==
    LET p == safeParse(W3LsArgsSchema, a)
    IN  IF ~p.success THEN InvalidArguments("w3_ls")
        ELSE Exec(IF p.data["json"] THEN <<"ls --json">> ELSE <<"ls">>, <<>>)

\* the shape shared by the listing tools: parseNdJson is not caught
NdJsonListing(json, key, out) ==
    IF json
    THEN LET r == parseNdJson(out.stdout)
         IN  IF r.threw THEN Throw(r.message, r.logs)
             ELSE Return([k \in {key} |-> r.records], r.logs)
    ELSE Return([output |-> Trim(out.stdout)], <<>>)

handleW3LsResume(a, out) ==
    NdJsonListing(safeParse(W3LsArgsSchema, a).data["json"], "uploads", out)

handleW3Rm(a) ==
    LET p == safeParse(W3RmArgsSchema, a)
    IN  IF ~p.success THEN InvalidArguments("w3_rm")
        ELSE Exec(<<"rm ">> \o p.data["cid"]
                  \o When(p.data["removeShards"], <<" --shards">>), <<>>)

handleW3RmResume(a, out) ==
    LET data == safeParse(W3RmArgsSchema, a).data
    IN  Return([message |-> <<"Successfully removed listing for CID ">>
                            \o data["cid"] \o <<".">>,
                output  |-> Trim(out.stdout)], <<>>)

handleW3Open(a) ==
    LET p == safeParse(W3OpenArgsSchema, a)
        fullPath == IF TruthyString(p.data, "path")
                    THEN p.data["cid"] \o <<"/">> \o p.data["path"]
                    ELSE p.data["cid"]
        url == <<"https://w3s.link/ipfs/">> \o fullPath
    IN  IF ~p.success THEN InvalidArguments("w3_open")
        ELSE Return([message |-> <<"To view the content, open this URL in your browser: ">> \o url,
                     url     |-> url], <<>>)

handleW3SpaceInfo(a) ==
    LET p == safeParse(W3SpaceInfoArgsSchema, a)
    IN  IF ~p.success THEN InvalidArguments("w3_space_info")
        ELSE Exec(<<"space info">>
                  \o When(TruthyString(p.data, "spaceDid"),
                          <<" --space ">> \o p.data["spaceDid"])
                  \o When(p.data["json"], <<" --json">>), <<>>)

\* info.length > 0 ? info[0] : {}
FirstRecord(records) == IF Len(records) > 0 THEN records[1] ELSE JsonObject

\* a handler that knows the NDJSON form of the space information only
handleW3SpaceInfoResumeNdJsonOnly(a, out) ==
    LET data == safeParse(W3SpaceInfoArgsSchema, a).data
        r == parseNdJson(out.stdout)
    IN  IF ~data["json"] THEN Return([output |-> Trim(out.stdout)], <<>>)
        ELSE IF ~r.threw
             THEN Return([spaceInfo |-> FirstRecord(r.records)], r.logs)
             ELSE Throw(<<"Failed to parse JSON output for w3_space_info. Raw output: ">>
                        \o out.stdout,
                        r.logs \o <<Log("warn", "parse-failure")>>)

handleW3SpaceInfoResume(a, out) ==
    LET data == safeParse(W3SpaceInfoArgsSchema, a).data
        r == parseNdJson(out.stdout)
        singleInfo == JSONParse(out.stdout)
    IN  IF ~data["json"] THEN Return([output |-> Trim(out.stdout)], <<>>)
        ELSE IF ~r.threw
             THEN Return([spaceInfo |-> FirstRecord(r.records)], r.logs)
             ELSE IF singleInfo # SyntaxError
                  THEN Return([spaceInfo |-> singleInfo], r.logs)
                  ELSE Throw(<<"Failed to parse JSON output for w3_space_info. Raw output: ">>
                             \o out.stdout,
                             r.logs \o <<Log("warn", "parse-failure")>>)

handleW3SpaceAdd(a) ==
    LET p == safeParse(W3SpaceAddArgsSchema, a)
    IN  IF ~p.success THEN InvalidArguments("w3_space_add")
        ELSE Exec(<<"space add ">> \o Quoted(p.data["proof"]), <<>>)

handleW3SpaceAddResume(a, out) ==
    Return([message |-> <<"Space added successfully from proof.">>,
            output  |-> Trim(out.stdout)], <<>>)

handleW3DelegationCreate(a) ==
    LET p == safeParse(W3DelegationCreateArgsSchema, a)
        d == p.data
    IN  IF ~p.success THEN InvalidArguments("w3_delegation_create")
        ELSE Exec(<<"delegation create ">> \o d["audienceDid"]
                  \o CanOptions(d["capabilities"])
                  \o When(TruthyString(d, "name"),
                          <<" --name ">> \o Quoted(d["name"]))
                  \o When(TruthyString(d, "type"), <<" --type ">> \o d["type"])
                  \o When(TruthyString(d, "output"),
                          <<" --output ">> \o Quoted(d["output"]))
                  \o When(d["base64"], <<" --base64">>), <<>>)

\* ${outFile} of an outFile that is undefined prints "undefined"
handleW3DelegationCreateResume(a, out) ==
    LET d == safeParse(W3DelegationCreateArgsSchema, a).data
        outFile == IF "output" \in DOMAIN d THEN d["output"] ELSE <<"undefined">>
    IN  Return([message |->
                    IF d["base64"]
                    THEN <<"Delegation created successfully (base64 output).">>
                    ELSE <<"Delegation created successfully (output file: ">>
                         \o outFile \o <<").">>,
                output |-> Trim(out.stdout)], <<>>)

handleW3DelegationLs(a) ==
    LET p == safeParse(W3DelegationLsArgsSchema, a)
    IN  IF ~p.success THEN InvalidArguments("w3_delegation_ls")
        ELSE Exec(IF p.data["json"] THEN <<"delegation ls --json">>
                  ELSE <<"delegation ls">>, <<>>)

handleW3DelegationLsResume(a, out) ==
    NdJsonListing(safeParse(W3DelegationLsArgsSchema, a).data["json"],
                  "delegations", out)

handleW3DelegationRevoke(a) ==
    LET p == safeParse(W3DelegationRevokeArgsSchema, a)
    IN  IF ~p.success THEN InvalidArguments("w3_delegation_revoke")
        ELSE Exec(<<"delegation revoke ">> \o p.data["delegationCid"]
                  \o When(TruthyString(p.data, "proof"),
                          <<" --proof ">> \o Quoted(p.data["proof"])), <<>>)

handleW3DelegationRevokeResume(a, out) ==
    LET data == safeParse(W3DelegationRevokeArgsSchema, a).data
    IN  Return([message |-> <<"Successfully revoked delegation ">>
                            \o data["delegationCid"] \o <<".">>,
                output  |-> Trim(out.stdout)], <<>>)

handleW3ProofAdd(a) ==
    LET p == safeParse(W3ProofAddArgsSchema, a)
    IN  IF ~p.success THEN InvalidArguments("w3_proof_add")
        ELSE Exec(<<"proof add ">> \o Quoted(p.data["proofPath"]), <<>>)

handleW3ProofAddResume(a, out) ==
    LET data == safeParse(W3ProofAddArgsSchema, a).data
    IN  Return([message |-> <<"Successfully added proof from ">>
                            \o data["proofPath"] \o <<".">>,
                output  |-> Trim(out.stdout)], <<>>)

handleW3ProofLs(a) ==
    LET p == safeParse(W3ProofLsArgsSchema, a)
    IN  IF ~p.success THEN InvalidArguments("w3_proof_ls")
        ELSE Exec(IF p.data["json"] THEN <<"proof ls --json">>
                  ELSE <<"proof ls">>, <<>>)

handleW3ProofLsResume(a, out) ==
    NdJsonListing(safeParse(W3ProofLsArgsSchema, a).data["json"], "proofs", out)

handleW3KeyCreate(a) ==
    LET p == safeParse(W3KeyCreateArgsSchema, a)
    IN  IF ~p.success THEN InvalidArguments("w3_key_create")
        ELSE Exec(IF p.data["json"] THEN <<"key create --json">>
                  ELSE <<"key create">>, <<>>)

handleW3KeyCreateResume(a, out) ==
    LET data == safeParse(W3KeyCreateArgsSchema, a).data
        keyData == JSONParse(out.stdout)
        raw == [message |-> <<"New key pair created (raw output).">>,
                output  |-> Trim(out.stdout)]
    IN  IF ~data["json"] THEN Return(raw, <<>>)
        ELSE IF keyData # SyntaxError
             THEN Return([message |-> <<"New key pair created (JSON format).">>,
                          keyData |-> keyData], <<>>)
             ELSE Return(raw, <<Log("warn", "parse-failure")>>)

handleW3BridgeGenerateTokens(a) ==
    LET p == safeParse(W3BridgeGenerateTokensArgsSchema, a)
        d == p.data
    IN  IF ~p.success THEN InvalidArguments("w3_bridge_generate_tokens")
        ELSE Exec(<<"bridge generate-tokens">>
                  \o CanOptions(d["capabilities"])
                  \o When("expiration" \in DOMAIN d,
                          <<" --expiration ">> \o NumberToString(d["expiration"]))
                  \o When(d["json"], <<" --json">>), <<>>)

handleW3BridgeGenerateTokensResume(a, out) ==
    LET data == safeParse(W3BridgeGenerateTokensArgsSchema, a).data
        tokenData == JSONParse(out.stdout)
        raw == [message |-> <<"Bridge tokens generated (raw output).">>,
                output  |-> Trim(out.stdout)]
    IN  IF ~data["json"] THEN Return(raw, <<>>)
        ELSE IF tokenData # SyntaxError
             THEN Return([message   |-> <<"Bridge tokens generated (JSON format).">>,
                          tokenData |-> tokenData], <<>>)
             ELSE Return(raw, <<Log("warn", "parse-failure")>>)

\* stdout.match(/Stored\s+(\S+)\s+\((\S+)\)/): the matches <<i, k, m, l>> with
\* "Stored" at i, the first group ending at k, "(" at m and the second group
\* ending at l; the regular expression engine returns the leftmost one and
\* takes the second group as long as it can.
StoredMatches(s) ==
    LET n == Len(s)
        ws(x, y) == \A q \in x..y : IsWs(s[q])
        nonWs(x, y) == \A q \in x..y : ~IsWs(s[q])
    IN  {t \in (1..n) \X (1..n) \X (1..n) \X (1..n) :
            LET i == t[1]
                k == t[2]
                m == t[3]
                l == t[4]
            IN  /\ s[i] = "Stored"
                /\ \E j \in (i + 2)..k : ws(i + 1, j - 1) /\ nonWs(j, k)
                /\ m > k + 1 /\ ws(k + 1, m - 1)
                /\ s[m] = "("
                /\ l > m /\ nonWs(m + 1, l)
                /\ l < n /\ s[l + 1] = ")"}

StoredMatch(s) ==
    LET ms == StoredMatches(s)
    IN  IF ms = {} THEN [found |-> FALSE]
        ELSE LET t == CHOOSE x \in ms :
                          \A y \in ms : x[1] < y[1] \/ (x[1] = y[1] /\ x[4] >= y[4])
                 j == CHOOSE q \in (t[1] + 2)..t[2] :
                          /\ \A r \in (t[1] + 1)..(q - 1) : IsWs(s[r])
                          /\ ~IsWs(s[q])
             IN  [found     |-> TRUE,
                  multihash |-> SubSeq(s, j, t[2]),
                  cid       |-> SubSeq(s, t[3] + 1, t[4])]

handleW3CanBlobAdd(a) ==
    LET p == safeParse(W3CanBlobAddArgsSchema, a)
    IN  IF ~p.success THEN InvalidArguments("w3_can_blob_add")
        ELSE Exec(<<"can blob add ">> \o Quoted(p.data["path"]), <<>>)

handleW3CanBlobAddResume(a, out) ==
    LET match == StoredMatch(out.stdout)
    IN  IF ~match.found
        THEN Return([message |-> <<"Blob added, but output parsing failed.">>,
                     output  |-> Trim(out.stdout)],
                    <<Log("warn", "parse-failure")>>)
        ELSE Return([message   |-> <<"Blob added successfully.">>,
                     multihash |-> match.multihash,
                     cid       |-> match.cid,
                     output    |-> Trim(out.stdout)], <<>>)

\* the options shared by the can ... ls tools
PageOptions(d) ==
    When(TruthyNumber(d, "size"), <<" --size ">> \o NumberToString(d["size"]))
    \o When(TruthyString(d, "cursor"), <<" --cursor ">> \o d["cursor"])

\* a handler of w3_can_blob_ls that lists the store instead
handleW3CanBlobLsListsStore(a) ==
    LET p == safeParse(W3CanBlobLsArgsSchema, a)
    IN  IF ~p.success THEN InvalidArguments("w3_can_blob_ls")
        ELSE Exec(<<"can store ls">> \o When(p.data["json"], <<" --json">>)
                  \o PageOptions(p.data), <<>>)

handleW3CanBlobLs(a) ==
    LET p == safeParse(W3CanBlobLsArgsSchema, a)
    IN  IF ~p.success THEN InvalidArguments("w3_can_blob_ls")
        ELSE Exec(<<"can blob ls">> \o When(p.data["json"], <<" --json">>)
                  \o PageOptions(p.data), <<>>)

handleW3CanBlobLsResume(a, out) ==
    NdJsonListing(safeParse(W3CanBlobLsArgsSchema, a).data["json"], "blobs", out)

handleW3CanBlobRm(a) ==
    LET p == safeParse(W3CanBlobRmArgsSchema, a)
    IN  IF ~p.success THEN InvalidArguments("w3_can_blob_rm")
        ELSE Exec(<<"can blob rm ">> \o p.data["multihash"], <<>>)

handleW3CanBlobRmResume(a, out) ==
    LET data == safeParse(W3CanBlobRmArgsSchema, a).data
    IN  Return([message |-> <<"Blob ">> \o data["multihash"]
                            \o <<" removed successfully.">>,
                output  |-> Trim(out.stdout)], <<>>)

handleW3CanIndexAdd(a) ==
    LET p == safeParse(W3CanIndexAddArgsSchema, a)
    IN  IF ~p.success THEN InvalidArguments("w3_can_index_add")
        ELSE Exec(<<"can index add ">> \o p.data["cid"], <<>>)

handleW3CanIndexAddResume(a, out) ==
    LET data == safeParse(W3CanIndexAddArgsSchema, a).data
    IN  Return([message |-> <<"Index CID ">> \o data["cid"]
                            \o <<" added successfully.">>,
                output  |-> Trim(out.stdout)], <<>>)

handleW3CanUploadAdd(a) ==
    LET p == safeParse(W3CanUploadAddArgsSchema, a)
    IN  IF ~p.success THEN InvalidArguments("w3_can_upload_add")
        ELSE Exec(<<"can upload add ">> \o p.data["rootCid"] \o <<" ">>
                  \o Join(p.data["shardCids"], <<" ">>), <<>>)

handleW3CanUploadAddResume(a, out) ==
    LET data == safeParse(W3CanUploadAddArgsSchema, a).data
    IN  Return([message |-> <<"Upload with root ">> \o data["rootCid"]
                            \o <<" registered successfully.">>,
                output  |-> Trim(out.stdout)], <<>>)

handleW3CanUploadLs(a) ==
    LET p == safeParse(W3CanUploadLsArgsSchema, a)
    IN  IF ~p.success THEN InvalidArguments("w3_can_upload_ls")
        ELSE Exec(<<"can upload ls">> \o When(p.data["json"], <<" --json">>)
                  \o When(p.data["shards"], <<" --shards">>)
                  \o PageOptions(p.data)
                  \o When(p.data["pre"], <<" --pre">>), <<>>)

handleW3CanUploadLsResume(a, out) ==
    NdJsonListing(safeParse(W3CanUploadLsArgsSchema, a).data["json"],
                  "uploads", out)

handleW3CanUploadRm(a) ==
    LET p == safeParse(W3CanUploadRmArgsSchema, a)
    IN  IF ~p.success THEN InvalidArguments("w3_can_upload_rm")
        ELSE Exec(<<"can upload rm ">> \o p.data["rootCid"], <<>>)

handleW3CanUploadRmResume(a, out) ==
    LET data == safeParse(W3CanUploadRmArgsSchema, a).data
    IN  Return([message |-> <<"Upload ">> \o data["rootCid"]
                            \o <<" removed successfully.">>,
                output  |-> Trim(out.stdout)], <<>>)

handleW3PlanGet(a) ==
    LET p == safeParse(W3PlanGetArgsSchema, a)
    IN  IF ~p.success THEN InvalidArguments("w3_plan_get")
        ELSE Exec(<<"plan get">>
                  \o When(TruthyString(p.data, "accountId"),
                          <<" --account ">> \o p.data["accountId"]), <<>>)

handleW3PlanGetResume(a, out) ==
    LET r == parseNdJson(out.stdout)
    IN  IF ~r.threw
        THEN Return([message  |-> <<"Plan information retrieved.">>,
                     planData |-> FirstRecord(r.records)], r.logs)
        ELSE Throw(<<"Failed to parse JSON output for w3_plan_get. Raw output: ">>
                   \o out.stdout,
                   r.logs \o <<Log("warn", "parse-failure")>>)

handleW3AccountLs(a) ==
    IF ~safeParse(W3AccountLsArgsSchema, a).success
    THEN InvalidArguments("w3_account_ls")
    ELSE Exec(<<"account ls">>, <<>>)

handleW3AccountLsResume(a, out) ==
    LET r == parseNdJson(out.stdout)
    IN  IF ~r.threw
        THEN Return([message  |-> <<"Authorized accounts retrieved.">>,
                     accounts |-> r.records], r.logs)
        ELSE Throw(<<"Failed to parse JSON output for w3_account_ls. Raw output: ">>
                   \o out.stdout,
                   r.logs \o <<Log("warn", "parse-failure")>>)

handleW3SpaceProvision(a) ==
    LET p == safeParse(W3SpaceProvisionArgsSchema, a)
    IN  IF ~p.success THEN InvalidArguments("w3_space_provision")
        ELSE Exec(<<"space provision ">> \o p.data["customerId"]
                  \o <<" --space ">> \o p.data["spaceDid"], <<>>)

handleW3SpaceProvisionResume(a, out) ==
    LET data == safeParse(W3SpaceProvisionArgsSchema, a).data
    IN  Return([message |-> <<"Space ">> \o data["spaceDid"]
                            \o <<" provisioned for customer ">>
                            \o data["customerId"] \o <<".">>,
                output  |-> Trim(out.stdout)], <<>>)

handleW3CouponCreate(a) ==
    LET p == safeParse(W3CouponCreateArgsSchema, a)
    IN  IF ~p.success THEN InvalidArguments("w3_coupon_create")
        ELSE Exec(<<"coupon create ">> \o p.data["claimCode"], <<>>)

handleW3CouponCreateResume(a, out) ==
    Return([message |-> <<"Attempted to claim coupon.">>,
            output  |-> Trim(out.stdout)], <<>>)

handleW3UsageReport(a) ==
    LET p == safeParse(W3UsageReportArgsSchema, a)
    IN  IF ~p.success THEN InvalidArguments("w3_usage_report")
        ELSE Exec(<<"usage report">>
                  \o When(TruthyString(p.data, "spaceDid"),
                          <<" --space ">> \o p.data["spaceDid"])
                  \o When(p.data["json"], <<" --json">>), <<>>)

\* a handler that lets the parse failure of the usage report go to the caller
handleW3UsageReportResumeRethrows(a, out) ==
    LET data == safeParse(W3UsageReportArgsSchema, a).data
        r == parseNdJson(out.stdout)
    IN  IF ~data["json"] THEN Return([output |-> Trim(out.stdout)], <<>>)
        ELSE IF ~r.threw
             THEN Return([usageReport |-> FirstRecord(r.records)], r.logs)
             ELSE Throw(r.message, r.logs)

handleW3UsageReportResume(a, out) ==
    LET data == safeParse(W3UsageReportArgsSchema, a).data
        r == parseNdJson(out.stdout)
    IN  IF ~data["json"] THEN Return([output |-> Trim(out.stdout)], <<>>)
        ELSE IF ~r.threw
             THEN Return([usageReport |-> FirstRecord(r.records)], r.logs)
             ELSE Return([output |-> Trim(out.stdout)],
                         r.logs \o <<Log("warn", "parse-failure")>>)

handleW3CanAccessClaim(a) ==
    LET p == safeParse(W3CanAccessClaimArgsSchema, a)
    IN  IF ~p.success THEN InvalidArguments("w3_can_access_claim")
        ELSE Exec(<<"can access claim ">> \o Quoted(p.data["proof"]), <<>>)

handleW3CanAccessClaimResume(a, out) ==
    Return([message |-> <<"Capability claim attempted.">>,
            output  |-> Trim(out.stdout)], <<>>)

handleW3CanStoreAdd(a) ==
    LET p == safeParse(W3CanStoreAddArgsSchema, a)
    IN  IF ~p.success THEN InvalidArguments("w3_can_store_add")
        ELSE Exec(<<"can store add ">> \o Quoted(p.data["path"]), <<>>)

handleW3CanStoreAddResume(a, out) ==
    Return([message |-> <<"CAR file stored successfully.">>,
            output  |-> Trim(out.stdout)], <<>>)

handleW3CanStoreLs(a) ==
    LET p == safeParse(W3CanStoreLsArgsSchema, a)
    IN  IF ~p.success THEN InvalidArguments("w3_can_store_ls")
        ELSE Exec(<<"can store ls">> \o When(p.data["json"], <<" --json">>)
                  \o PageOptions(p.data), <<>>)

handleW3CanStoreLsResume(a, out) ==
    NdJsonListing(safeParse(W3CanStoreLsArgsSchema, a).data["json"],
                  "stores", out)

handleW3CanStoreRm(a) ==
    LET p == safeParse(W3CanStoreRmArgsSchema, a)
    IN  IF ~p.success THEN InvalidArguments("w3_can_store_rm")
        ELSE Exec(<<"can store rm ">> \o p.data["carCid"], <<>>)

handleW3CanStoreRmResume(a, out) ==
    LET data == safeParse(W3CanStoreRmArgsSchema, a).data
    IN  Return([message |-> <<"Successfully removed CAR shard ">>
                            \o data["carCid"] \o <<".">>,
                output  |-> Trim(out.stdout)], <<>>)

handleW3CanFilecoinInfo(a) ==
    LET p == safeParse(W3CanFilecoinInfoArgsSchema, a)
    IN  IF ~p.success THEN InvalidArguments("w3_can_filecoin_info")
        ELSE Exec(<<"can filecoin info ">> \o p.data["pieceCid"], <<>>)

\* the catch block returns the raw output and calls no logger function
handleW3CanFilecoinInfoResume(a, out) ==
    LET info == JSONParse(out.stdout)
    IN  IF info # SyntaxError
        THEN Return([filecoinInfo |-> info], <<>>)
        ELSE Return([output |-> Trim(out.stdout)], <<>>)

handleW3Reset(a) ==
    IF ~safeParse(W3ResetArgsSchema, a).success
    THEN InvalidArguments("w3_reset")
    ELSE Exec(<<"reset">>, <<>>)

handleW3ResetResume(a, out) ==
    Return([message |-> <<"Agent state reset successfully (proofs/delegations removed).">>,
            output  |-> Trim(out.stdout)], <<>>)

(***************************************************************************)
(* The tool registry and the schema of every tool.                         *)
(***************************************************************************)
toolHandlers ==
    {"w3_login", "w3_space_ls", "w3_space_use", "w3_space_create", "w3_up",
     "w3_ls", "w3_rm", "w3_open", "w3_space_info", "w3_space_add",
     "w3_delegation_create", "w3_delegation_ls", "w3_delegation_revoke",
     "w3_proof_add", "w3_proof_ls", "w3_key_create",
     "w3_bridge_generate_tokens", "w3_can_blob_add", "w3_can_blob_ls",
     "w3_can_blob_rm", "w3_can_index_add", "w3_can_upload_add",
     "w3_can_upload_ls", "w3_can_upload_rm", "w3_plan_get", "w3_account_ls",
     "w3_space_provision", "w3_coupon_create", "w3_usage_report",
     "w3_can_access_claim", "w3_can_store_add", "w3_can_store_ls",
     "w3_can_store_rm", "w3_can_filecoin_info", "w3_reset"}

\* what toolHandlers[name] finds for a name that is no key of the registry:
\* toolHandlers is an object literal, so the properties of Object.prototype
\* are found through it ("constructor" is the function Object, "__proto__"
\* is Object.prototype itself); for every other name it is undefined
ObjectPrototype == {"constructor", "__proto__"}

ToolSchema ==
    [w3_login                  |-> W3LoginArgsSchema,
     w3_space_ls               |-> W3SpaceLsArgsSchema,
     w3_space_use              |-> W3SpaceUseArgsSchema,
     w3_space_create           |-> W3SpaceCreateArgsSchema,
     w3_up                     |-> W3UpArgsSchema,
     w3_ls                     |-> W3LsArgsSchema,
     w3_rm                     |-> W3RmArgsSchema,
     w3_open                   |-> W3OpenArgsSchema,
     w3_space_info             |-> W3SpaceInfoArgsSchema,
     w3_space_add              |-> W3SpaceAddArgsSchema,
     w3_delegation_create      |-> W3DelegationCreateArgsSchema,
     w3_delegation_ls          |-> W3DelegationLsArgsSchema,
     w3_delegation_revoke      |-> W3DelegationRevokeArgsSchema,
     w3_proof_add              |-> W3ProofAddArgsSchema,
     w3_proof_ls               |-> W3ProofLsArgsSchema,
     w3_key_create             |-> W3KeyCreateArgsSchema,
     w3_bridge_generate_tokens |-> W3BridgeGenerateTokensArgsSchema,
     w3_can_blob_add           |-> W3CanBlobAddArgsSchema,
     w3_can_blob_ls            |-> W3CanBlobLsArgsSchema,
     w3_can_blob_rm            |-> W3CanBlobRmArgsSchema,
     w3_can_index_add          |-> W3CanIndexAddArgsSchema,
     w3_can_upload_add         |-> W3CanUploadAddArgsSchema,
     w3_can_upload_ls          |-> W3CanUploadLsArgsSchema,
     w3_can_upload_rm          |-> W3CanUploadRmArgsSchema,
     w3_plan_get               |-> W3PlanGetArgsSchema,
     w3_account_ls             |-> W3AccountLsArgsSchema,
     w3_space_provision        |-> W3SpaceProvisionArgsSchema,
     w3_coupon_create          |-> W3CouponCreateArgsSchema,
     w3_usage_report           |-> W3UsageReportArgsSchema,
     w3_can_access_claim       |-> W3CanAccessClaimArgsSchema,
     w3_can_store_add          |-> W3CanStoreAddArgsSchema,
     w3_can_store_ls           |-> W3CanStoreLsArgsSchema,
     w3_can_store_rm           |-> W3CanStoreRmArgsSchema,
     w3_can_filecoin_info      |-> W3CanFilecoinInfoArgsSchema,
     w3_reset                  |-> W3ResetArgsSchema]

\* toolHandlers[name](args), up to the first await
HandlerStart(name, a, email) ==
    CASE name = "w3_login"                  -> handleW3Login(a, email)
      [] name = "w3_space_ls"               -> handleW3SpaceLs(a)
      [] name = "w3_space_use"              -> handleW3SpaceUse(a)
      [] name = "w3_space_create"           -> handleW3SpaceCreate(a)
      [] name = "w3_up"                     -> handleW3Up(a)
      [] name = "w3_ls"                     -> handleW3Ls(a)
      [] name = "w3_rm"                     -> handleW3Rm(a)
      [] name = "w3_open"                   -> handleW3Open(a)
      [] name = "w3_space_info"             -> handleW3SpaceInfo(a)
      [] name = "w3_space_add"              -> handleW3SpaceAdd(a)
      [] name = "w3_delegation_create"      -> handleW3DelegationCreate(a)
      [] name = "w3_delegation_ls"          -> handleW3DelegationLs(a)
      [] name = "w3_delegation_revoke"      -> handleW3DelegationRevoke(a)
      [] name = "w3_proof_add"              -> handleW3ProofAdd(a)
      [] name = "w3_proof_ls"               -> handleW3ProofLs(a)
      [] name = "w3_key_create"             -> handleW3KeyCreate(a)
      [] name = "w3_bridge_generate_tokens" -> handleW3BridgeGenerateTokens(a)
      [] name = "w3_can_blob_add"           -> handleW3CanBlobAdd(a)
      [] name = "w3_can_blob_ls"            -> handleW3CanBlobLs(a)
      [] name = "w3_can_blob_rm"            -> handleW3CanBlobRm(a)
      [] name = "w3_can_index_add"          -> handleW3CanIndexAdd(a)
      [] name = "w3_can_upload_add"         -> handleW3CanUploadAdd(a)
      [] name = "w3_can_upload_ls"          -> handleW3CanUploadLs(a)
      [] name = "w3_can_upload_rm"          -> handleW3CanUploadRm(a)
      [] name = "w3_plan_get"               -> handleW3PlanGet(a)
      [] name = "w3_account_ls"             -> handleW3AccountLs(a)
      [] name = "w3_space_provision"        -> handleW3SpaceProvision(a)
      [] name = "w3_coupon_create"          -> handleW3CouponCreate(a)
      [] name = "w3_usage_report"           -> handleW3UsageReport(a)
      [] name = "w3_can_access_claim"       -> handleW3CanAccessClaim(a)
      [] name = "w3_can_store_add"          -> handleW3CanStoreAdd(a)
      [] name = "w3_can_store_ls"           -> handleW3CanStoreLs(a)
      [] name = "w3_can_store_rm"           -> handleW3CanStoreRm(a)
      [] name = "w3_can_filecoin_info"      -> handleW3CanFilecoinInfo(a)
      [] name = "w3_reset"                  -> handleW3Reset(a)
      \* Object(args): args itself, or a new empty object when args is missing
      [] name = "constructor"               ->
             [kind  |-> "return",
              reply |-> IF a = NoArguments THEN Object(NoFields) ELSE a,
              logs  |-> <<>>]
      \* Object.prototype is not callable: a TypeError
      [] name = "__proto__"                 ->
             Throw(<<"handler is not a function">>, <<>>)

\* toolHandlers[name](args), from the point where runW3Command has resolved
\* (handleW3Open and handleW3SpaceCreate never call runW3Command)
HandlerResume(name, a, out, email) ==
    CASE name = "w3_login"                  -> handleW3LoginResume(a, out, email)
      [] name = "w3_space_ls"               -> handleW3SpaceLsResume(a, out)
      [] name = "w3_space_use"              -> handleW3SpaceUseResume(a, out)
      [] name = "w3_up"                     -> handleW3UpResume(a, out)
      [] name = "w3_ls"                     -> handleW3LsResume(a, out)
      [] name = "w3_rm"                     -> handleW3RmResume(a, out)
      [] name = "w3_space_info"             -> handleW3SpaceInfoResume(a, out)
      [] name = "w3_space_add"              -> handleW3SpaceAddResume(a, out)
      [] name = "w3_delegation_create"      -> handleW3DelegationCreateResume(a, out)
      [] name = "w3_delegation_ls"          -> handleW3DelegationLsResume(a, out)
      [] name = "w3_delegation_revoke"      -> handleW3DelegationRevokeResume(a, out)
      [] name = "w3_proof_add"              -> handleW3ProofAddResume(a, out)
      [] name = "w3_proof_ls"               -> handleW3ProofLsResume(a, out)
      [] name = "w3_key_create"             -> handleW3KeyCreateResume(a, out)
      [] name = "w3_bridge_generate_tokens" -> handleW3BridgeGenerateTokensResume(a, out)
      [] name = "w3_can_blob_add"           -> handleW3CanBlobAddResume(a, out)
      [] name = "w3_can_blob_ls"            -> handleW3CanBlobLsResume(a, out)
      [] name = "w3_can_blob_rm"            -> handleW3CanBlobRmResume(a, out)
      [] name = "w3_can_index_add"          -> handleW3CanIndexAddResume(a, out)
      [] name = "w3_can_upload_add"         -> handleW3CanUploadAddResume(a, out)
      [] name = "w3_can_upload_ls"          -> handleW3CanUploadLsResume(a, out)
      [] name = "w3_can_upload_rm"          -> handleW3CanUploadRmResume(a, out)
      [] name = "w3_plan_get"               -> handleW3PlanGetResume(a, out)
      [] name = "w3_account_ls"             -> handleW3AccountLsResume(a, out)
      [] name = "w3_space_provision"        -> handleW3SpaceProvisionResume(a, out)
      [] name = "w3_coupon_create"          -> handleW3CouponCreateResume(a, out)
      [] name = "w3_usage_report"           -> handleW3UsageReportResume(a, out)
      [] name = "w3_can_access_claim"       -> handleW3CanAccessClaimResume(a, out)
      [] name = "w3_can_store_add"          -> handleW3CanStoreAddResume(a, out)
      [] name = "w3_can_store_ls"           -> handleW3CanStoreLsResume(a, out)
      [] name = "w3_can_store_rm"           -> handleW3CanStoreRmResume(a, out)
      [] name = "w3_can_filecoin_info"      -> handleW3CanFilecoinInfoResume(a, out)
      [] name = "w3_reset"                  -> handleW3ResetResume(a, out)

(***************************************************************************)
(* The tool catalog (the ListTools handler of index.ts).  A name of an     *)
(* export is a sequence of characters; the texts of the descriptions are   *)
(* written without their backquotes.                                       *)
(***************************************************************************)
\* import * as Schemas from "./schemas.js": every export of schemas.ts
Schemas ==
  { [name |-> <<"W", "3", "L", "o", "g", "i", "n", "A", "r", "g", "s", "S", "c", "h", "e", "m", "a">>,
     isZodType |-> TRUE, schema |-> W3LoginArgsSchema,
     description |->
         <<"Initiates the w3 login process using the pre-configured email (W3_LOGIN_EMAIL env var). User MUST check email to complete authentication.">>],
    [name |-> <<"W", "3", "S", "p", "a", "c", "e", "L", "s", "A", "r", "g", "s", "S", "c", "h", "e", "m", "a">>,
     isZodType |-> TRUE, schema |-> W3SpaceLsArgsSchema],
    [name |-> <<"W", "3", "S", "p", "a", "c", "e", "U", "s", "e", "A", "r", "g", "s", "S", "c", "h", "e", "m", "a">>,
     isZodType |-> TRUE, schema |-> W3SpaceUseArgsSchema],
    [name |-> <<"W", "3", "S", "p", "a", "c", "e", "C", "r", "e", "a", "t", "e", "A", "r", "g", "s", "S", "c", "h", "e", "m", "a">>,
     isZodType |-> TRUE, schema |-> W3SpaceCreateArgsSchema,
     description |->
         <<"Creates a new space with a user-friendly name.">>],
    [name |-> <<"W", "3", "U", "p", "A", "r", "g", "s", "S", "c", "h", "e", "m", "a">>,
     isZodType |-> TRUE, schema |-> W3UpArgsSchema,
     description |->
         <<"Generates and prints a new ed25519 key pair. Does not automatically use it for the agent.">>],
    [name |-> <<"W", "3", "L", "s", "A", "r", "g", "s", "S", "c", "h", "e", "m", "a">>,
     isZodType |-> TRUE, schema |-> W3LsArgsSchema],
    [name |-> <<"W", "3", "R", "m", "A", "r", "g", "s", "S", "c", "h", "e", "m", "a">>,
     isZodType |-> TRUE, schema |-> W3RmArgsSchema],
    [name |-> <<"W", "3", "O", "p", "e", "n", "A", "r", "g", "s", "S", "c", "h", "e", "m", "a">>,
     isZodType |-> TRUE, schema |-> W3OpenArgsSchema],
    [name |-> <<"W", "3", "S", "p", "a", "c", "e", "I", "n", "f", "o", "A", "r", "g", "s", "S", "c", "h", "e", "m", "a">>,
     isZodType |-> TRUE, schema |-> W3SpaceInfoArgsSchema],
    [name |-> <<"W", "3", "S", "p", "a", "c", "e", "A", "d", "d", "A", "r", "g", "s", "S", "c", "h", "e", "m", "a">>,
     isZodType |-> TRUE, schema |-> W3SpaceAddArgsSchema],
    [name |-> <<"W", "3", "D", "e", "l", "e", "g", "a", "t", "i", "o", "n", "C", "r", "e", "a", "t", "e", "A", "r", "g", "s", "S", "c", "h", "e", "m", "a">>,
     isZodType |-> TRUE, schema |-> W3DelegationCreateArgsSchema],
    [name |-> <<"W", "3", "D", "e", "l", "e", "g", "a", "t", "i", "o", "n", "L", "s", "A", "r", "g", "s", "S", "c", "h", "e", "m", "a">>,
     isZodType |-> TRUE, schema |-> W3DelegationLsArgsSchema],
    [name |-> <<"W", "3", "D", "e", "l", "e", "g", "a", "t", "i", "o", "n", "R", "e", "v", "o", "k", "e", "A", "r", "g", "s", "S", "c", "h", "e", "m", "a">>,
     isZodType |-> TRUE, schema |-> W3DelegationRevokeArgsSchema],
    [name |-> <<"W", "3", "P", "r", "o", "o", "f", "A", "d", "d", "A", "r", "g", "s", "S", "c", "h", "e", "m", "a">>,
     isZodType |-> TRUE, schema |-> W3ProofAddArgsSchema],
    [name |-> <<"W", "3", "P", "r", "o", "o", "f", "L", "s", "A", "r", "g", "s", "S", "c", "h", "e", "m", "a">>,
     isZodType |-> TRUE, schema |-> W3ProofLsArgsSchema],
    [name |-> <<"W", "3", "K", "e", "y", "C", "r", "e", "a", "t", "e", "A", "r", "g", "s", "S", "c", "h", "e", "m", "a">>,
     isZodType |-> TRUE, schema |-> W3KeyCreateArgsSchema,
     description |->
         <<"Generates and prints a new ed25519 key pair. Does not automatically use it for the agent.">>],
    [name |-> <<"W", "3", "B", "r", "i", "d", "g", "e", "G", "e", "n", "e", "r", "a", "t", "e", "T", "o", "k", "e", "n", "s", "A", "r", "g", "s", "S", "c", "h", "e", "m", "a">>,
     isZodType |-> TRUE, schema |-> W3BridgeGenerateTokensArgsSchema,
     description |->
         <<"Generates authentication tokens for using the UCAN-HTTP bridge.">>],
    [name |-> <<"W", "3", "C", "a", "n", "B", "l", "o", "b", "A", "d", "d", "A", "r", "g", "s", "S", "c", "h", "e", "m", "a">>,
     isZodType |-> TRUE, schema |-> W3CanBlobAddArgsSchema,
     description |->
         <<"Stores a single file as a blob directly with the service.">>],
    [name |-> <<"W", "3", "C", "a", "n", "B", "l", "o", "b", "L", "s", "A", "r", "g", "s", "S", "c", "h", "e", "m", "a">>,
     isZodType |-> TRUE, schema |-> W3CanBlobLsArgsSchema,
     description |->
         <<"Lists blobs stored in the current space.">>],
    [name |-> <<"W", "3", "C", "a", "n", "B", "l", "o", "b", "R", "m", "A", "r", "g", "s", "S", "c", "h", "e", "m", "a">>,
     isZodType |-> TRUE, schema |-> W3CanBlobRmArgsSchema,
     description |->
         <<"Removes a blob from the store by its base58btc encoded multihash.">>],
    [name |-> <<"W", "3", "C", "a", "n", "I", "n", "d", "e", "x", "A", "d", "d", "A", "r", "g", "s", "S", "c", "h", "e", "m", "a">>,
     isZodType |-> TRUE, schema |-> W3CanIndexAddArgsSchema,
     description |->
         <<"Registers an index CID with the service (advanced use). Please refer to storacha.network documentation for details on indices.">>],
    [name |-> <<"W", "3", "C", "a", "n", "U", "p", "l", "o", "a", "d", "A", "d", "d", "A", "r", "g", "s", "S", "c", "h", "e", "m", "a">>,
     isZodType |-> TRUE, schema |-> W3CanUploadAddArgsSchema,
     description |->
         <<"Manually registers an upload DAG by its root CID and shard CIDs (advanced use). This is typically used after storing CAR shards manually.">>],
    [name |-> <<"W", "3", "C", "a", "n", "U", "p", "l", "o", "a", "d", "L", "s", "A", "r", "g", "s", "S", "c", "h", "e", "m", "a">>,
     isZodType |-> TRUE, schema |-> W3CanUploadLsArgsSchema,
     description |->
         <<"Lists uploads registered in the current space (advanced view, shows underlying structure).">>],
    [name |-> <<"W", "3", "C", "a", "n", "U", "p", "l", "o", "a", "d", "R", "m", "A", "r", "g", "s", "S", "c", "h", "e", "m", "a">>,
     isZodType |-> TRUE, schema |-> W3CanUploadRmArgsSchema,
     description |->
         <<"Removes an upload listing by its root CID (advanced use). Does not remove the underlying blobs/shards.">>],
    [name |-> <<"W", "3", "P", "l", "a", "n", "G", "e", "t", "A", "r", "g", "s", "S", "c", "h", "e", "m", "a">>,
     isZodType |-> TRUE, schema |-> W3PlanGetArgsSchema,
     description |->
         <<"Displays the plan associated with the current or specified account.">>],
    [name |-> <<"W", "3", "A", "c", "c", "o", "u", "n", "t", "L", "s", "A", "r", "g", "s", "S", "c", "h", "e", "m", "a">>,
     isZodType |-> TRUE, schema |-> W3AccountLsArgsSchema,
     description |->
         <<"Lists all accounts the current agent is **authorized** for. Use this command after w3_login and email validation to confirm the agent is successfully linked to your storacha.network account(s). **Note:** Agent state may be ephemeral (e.g., in Docker). Check authorization status with this command after (re)connecting, and use w3_login if needed.">>],
    [name |-> <<"W", "3", "S", "p", "a", "c", "e", "P", "r", "o", "v", "i", "s", "i", "o", "n", "A", "r", "g", "s", "S", "c", "h", "e", "m", "a">>,
     isZodType |-> TRUE, schema |-> W3SpaceProvisionArgsSchema,
     description |->
         <<"Associates a space with a customer/billing account.">>],
    [name |-> <<"W", "3", "C", "o", "u", "p", "o", "n", "C", "r", "e", "a", "t", "e", "A", "r", "g", "s", "S", "c", "h", "e", "m", "a">>,
     isZodType |-> TRUE, schema |-> W3CouponCreateArgsSchema,
     description |->
         <<"Attempts to create/claim a coupon using a claim code.">>],
    [name |-> <<"W", "3", "U", "s", "a", "g", "e", "R", "e", "p", "o", "r", "t", "A", "r", "g", "s", "S", "c", "h", "e", "m", "a">>,
     isZodType |-> TRUE, schema |-> W3UsageReportArgsSchema,
     description |->
         <<"Displays a storage usage report for the current or specified space.">>],
    [name |-> <<"W", "3", "C", "a", "n", "A", "c", "c", "e", "s", "s", "C", "l", "a", "i", "m", "A", "r", "g", "s", "S", "c", "h", "e", "m", "a">>,
     isZodType |-> TRUE, schema |-> W3CanAccessClaimArgsSchema,
     description |->
         <<"Claims delegated capabilities for the authorized account using a provided proof.">>],
    [name |-> <<"W", "3", "C", "a", "n", "S", "t", "o", "r", "e", "A", "d", "d", "A", "r", "g", "s", "S", "c", "h", "e", "m", "a">>,
     isZodType |-> TRUE, schema |-> W3CanStoreAddArgsSchema,
     description |->
         <<"Stores a CAR file with the service (advanced use). This is often a prerequisite for w3_can_upload_add.">>],
    [name |-> <<"W", "3", "C", "a", "n", "S", "t", "o", "r", "e", "L", "s", "A", "r", "g", "s", "S", "c", "h", "e", "m", "a">>,
     isZodType |-> TRUE, schema |-> W3CanStoreLsArgsSchema,
     description |->
         <<"Lists stored CAR files (shards) in the current space (advanced use).">>],
    [name |-> <<"W", "3", "C", "a", "n", "S", "t", "o", "r", "e", "R", "m", "A", "r", "g", "s", "S", "c", "h", "e", "m", "a">>,
     isZodType |-> TRUE, schema |-> W3CanStoreRmArgsSchema,
     description |->
         <<"Removes a stored CAR shard by its CID (advanced use). Use with extreme caution, as this deletes the underlying data shard.">>],
    [name |-> <<"W", "3", "C", "a", "n", "F", "i", "l", "e", "c", "o", "i", "n", "I", "n", "f", "o", "A", "r", "g", "s", "S", "c", "h", "e", "m", "a">>,
     isZodType |-> TRUE, schema |-> W3CanFilecoinInfoArgsSchema,
     description |->
         <<"Gets Filecoin deal information for a given Piece CID (advanced use).">>],
    [name |-> <<"W", "3", "R", "e", "s", "e", "t", "A", "r", "g", "s", "S", "c", "h", "e", "m", "a">>,
     isZodType |-> TRUE, schema |-> W3ResetArgsSchema,
     description |->
         <<"DANGEROUS: Resets the agent state, removing all proofs and delegations but retaining the agent DID. Requires explicit confirmation argument.">>],
    [name |-> <<"r", "u", "n", "W", "3", "C", "o", "m", "m", "a", "n", "d">>,
     isZodType |-> FALSE],
    [name |-> <<"p", "a", "r", "s", "e", "N", "d", "J", "s", "o", "n">>,
     isZodType |-> FALSE] }

UpperCase ==
    {"A", "B", "C", "D", "E", "F", "G", "H", "I", "J", "K", "L", "M",
     "N", "O", "P", "Q", "R", "S", "T", "U", "V", "W", "X", "Y", "Z"}

\* c.toLowerCase() for one character
ToLowerCase(c) ==
    IF c \in UpperCase
    THEN ("A" :> "a" @@ "B" :> "b" @@ "C" :> "c" @@ "D" :> "d" @@ "E" :> "e" @@ "F" :> "f" @@
          "G" :> "g" @@ "H" :> "h" @@ "I" :> "i" @@ "J" :> "j" @@ "K" :> "k" @@ "L" :> "l" @@
          "M" :> "m" @@ "N" :> "n" @@ "O" :> "o" @@ "P" :> "p" @@ "Q" :> "q" @@ "R" :> "r" @@
          "S" :> "s" @@ "T" :> "t" @@ "U" :> "u" @@ "V" :> "v" @@ "W" :> "w" @@ "X" :> "x" @@
          "Y" :> "y" @@ "Z" :> "z")[c]
    ELSE c

\* s.indexOf(pattern), counted from 1 (0 when pattern does not occur)
IndexOf(s, pattern) ==
    LET hits == {i \in 1..(Len(s) - Len(pattern) + 1) :
                    SubSeq(s, i, i + Len(pattern) - 1) = pattern}
    IN  IF hits = {} THEN 0 ELSE CHOOSE i \in hits : \A j \in hits : i <= j

\* s.replace(pattern, by) for a string pattern: the first occurrence only
Replace(s, pattern, by) ==
    LET i == IndexOf(s, pattern)
    IN  IF i = 0 THEN s
        ELSE SubSeq(s, 1, i - 1) \o by \o SubSeq(s, i + Len(pattern), Len(s))

\* the string a sequence of characters spells
RECURSIVE Concat(_)
Concat(s) == IF s = <<>> THEN "" ELSE Head(s) \o Concat(Tail(s))

\* the conversion with "ArgsSchema" cut off the name before the underscores
\* are put in, and without substring(1)
toolNameKeepsUnderscore(schemaName) ==
    LET stripped == Replace(schemaName, <<"A", "r", "g", "s", "S", "c", "h", "e", "m", "a">>, <<>>)
        underscored ==
            Join([i \in 1..Len(stripped) |->
                      IF stripped[i] \in UpperCase
                      THEN <<"_", stripped[i]>> ELSE <<stripped[i]>>], <<>>)
    IN  Concat([i \in 1..Len(underscored) |-> ToLowerCase(underscored[i])])

\* schemaName.replace(/([A-Z])/g, "_$1").replace("_Args_Schema", "")
\*           .toLowerCase().substring(1)
toolName(schemaName) ==
    LET underscored ==
            Join([i \in 1..Len(schemaName) |->
                      IF schemaName[i] \in UpperCase
                      THEN <<"_", schemaName[i]>> ELSE <<schemaName[i]>>], <<>>)
        stripped ==
            Replace(underscored,
                    <<"_", "A", "r", "g", "s", "_", "S", "c", "h", "e", "m", "a">>,
                    <<>>)
        lowered == [i \in 1..Len(stripped) |-> ToLowerCase(stripped[i])]
    IN  Concat(Drop(lowered, 1))

\* schema.description ?? ..., the overrides and the notes, then trim()
toolDescription(name, export) ==
    LET described ==
            IF "description" \in DOMAIN export THEN export.description
            ELSE <<"Tool for ", name, " operation.">>
        overridden ==
            IF name = "w3_login"
            THEN <<"Initiates the w3 login process using the pre-configured email (W3_LOGIN_EMAIL env var). NOTE: The command waits for email validation. Highlight to the user that they MUST check email to complete authentication. If the final output includes 'Agent was authorized by', the user has already clicked the link and is successfully authorized.">>
            ELSE described
        notes ==
            When(name \in {"w3_space_info", "w3_space_ls"},
                 <<" NOTE: no current space and no space given or {\"spaces\":[]} first make sure you are logged in before using other tools.">>)
            \o When(name = "w3_space_create",
                    <<" NOTE: w3 space create cannot be run via MCP due to interactive recovery key prompts. Please run this command manually in your terminal.">>)
            \o When(name \in {"w3_up", "w3_delegation_create",
                              "w3_delegation_revoke", "w3_proof_add",
                              "w3_can_blob_add", "w3_can_store_add"},
                    <<" Requires ABSOLUTE paths for file arguments.">>)
    IN  Trim(overridden \o notes)

\* zodToJsonSchema(schema): the JSON Schema of a z.object
zodToJsonSchema(schema) ==
    [type       |-> "object",
     properties |->
         [k \in DOMAIN schema |->
             [type       |-> IF schema[k].check = "intPositive" THEN "integer"
                             ELSE schema[k].type,
              constraint |-> schema[k].check,
              default    |-> IF schema[k].hasDefault
                             THEN Bool(schema[k].default) ELSE NoArguments]],
     required   |-> {k \in DOMAIN schema : ~schema[k].optional},
     additionalProperties |-> FALSE]

\* the descriptor of one export: { name, description, inputSchema }
toolDescriptor(export) ==
    [name        |-> toolName(export.name),
     description |-> toolDescription(toolName(export.name), export),
     inputSchema |-> zodToJsonSchema(export.schema)]

\* the tools of the ListTools response (the order of the array left out)
ListToolsTools ==
    {toolDescriptor(export) :
        export \in {e \in Schemas :
                       /\ EndsWith(e.name, <<"A", "r", "g", "s", "S", "c", "h", "e", "m", "a">>)
                       /\ e.isZodType}}

(***************************************************************************)
(* The environment: the requests a client sends and what the w3 client     *)
(* does.                                                                   *)
(***************************************************************************)
Calls == 1..MaxCalls

Emails == {<<>>, <<"user@example.org">>}

\* the values a client sends for a field: good ones and bad ones
Candidates(f) ==
    CASE f.check = "startsWith"  -> {Str(<<"did:key:", "a">>), Str(<<"x">>)}
      [] f.check = "min1"        ->
             {Arr(<<>>), Arr(<< <<"x">> >>), Arr(<< <<"x">>, <<"y">> >>)}
      [] f.check = "intPositive" -> {Num(0), Num(1)}
      [] f.check = "enum"        -> {Str(<<"device">>), Str(<<"bogus">>)}
      [] f.check = "literal"     ->
             {Str(<<"yes-i-am-sure">>), Str(<<"yes">>), Bool(TRUE)}
      [] f.type = "boolean"      -> {Bool(TRUE), Bool(FALSE), Str(<<"x">>)}
      [] OTHER                   -> {Str(<<"x">>), Bool(TRUE)}

RECURSIVE FieldBags(_, _)
FieldBags(schema, keys) ==
    IF keys = {} THEN {NoFields}
    ELSE LET k    == CHOOSE x \in keys : TRUE
             rest == FieldBags(schema, keys \ {k})
         IN  rest \cup {b @@ (k :> v) : b \in rest, v \in Candidates(schema[k])}

UnknownTool == "w3_format_disk"

ToolNames == toolHandlers \cup ObjectPrototype \cup {UnknownTool}

\* the argument bags a client sends with a call of `name`: none at all, and
\* the objects over the fields of the tool's schema (one with a key the
\* schema does not name where the schema has no field)
ArgumentBags(name) ==
    IF name \notin toolHandlers THEN {NoArguments, Object(NoFields)}
    ELSE LET schema == ToolSchema[name]
         IN  {NoArguments}
             \cup {Object(b) : b \in FieldBags(schema, DOMAIN schema)}
             \cup (IF DOMAIN schema = {}
                   THEN {Object("email" :> Str(<<"other@example.org">>))}
                   ELSE {})

StdoutSamples ==
    { <<>>,
      <<"1", "\n", "{", "}", "\n">>,
      <<"{", "\n", "}">>,
      <<"1", "\n", "x">>,
      <<"*", " ", "did:key:", "a", " ", "n", "\n", "did:key:", "b", "\n">>,
      <<"Stored", " ", "m", " ", "(", "c", ")", "\n">> }

StderrSamples == {<<>>, <<"warning">>}

ExecOutcome(status, out, err) == [status |-> status, stdout |-> out, stderr |-> err]

\* exit status zero, non-zero exit status, and a process that cannot start
ExecOutcomes(stdouts) ==
    {ExecOutcome("ok", o, e) : o \in stdouts, e \in StderrSamples}
    \cup {ExecOutcome("exit", <<>>, e) : e \in StderrSamples}
    \cup {ExecOutcome("spawn", <<>>, <<>>)}

\* every text of at most n chunks over an alphabet
Texts(chars, n) == UNION {[1..k -> chars] : k \in 0..n}

NdJsonChars == {"1", "{", "}", " ", "\n", "x"}

ListingChars == {"*", "did:key:", "a", " ", "\n"}

(***************************************************************************)
(* The server (index.ts).                                                  *)
(***************************************************************************)
NoProcess ==
    [state |-> "none", command |-> <<>>, out |-> ExecOutcome("none", <<>>, <<>>)]

NoReply == [content |-> <<>>]

NoCatalog == [listed |-> FALSE]

InitServer ==
    /\ server = [state |-> "starting"]
    /\ loginEmail \in Emails
    /\ pc = [c \in Calls |-> "idle"]
    /\ tool = [c \in Calls |-> ""]
    /\ args = [c \in Calls |-> NoArguments]
    /\ proc = [c \in Calls |-> NoProcess]
    /\ spawned = [c \in Calls |-> 0]
    /\ reply = [c \in Calls |-> NoReply]
    /\ log = [c \in Calls |-> <<>>]
    /\ catalog = NoCatalog
    /\ failed = FALSE

InitFunctions ==
    /\ ndjson = <<>>
    /\ parsed = [called |-> FALSE]
    /\ stdout = <<>>
    /\ listing = [called |-> FALSE]

Init == InitServer /\ InitFunctions

serverVars ==
    <<server, loginEmail, pc, tool, args, proc, spawned, reply, log,
      catalog, failed>>

functionVars == <<ndjson, parsed, stdout, listing>>

\* process.exit(1)
Exit1 == [state |-> "exited", status |-> 1]

\* main() without the check of W3_LOGIN_EMAIL
StartWithoutEmail ==
    /\ server.state = "starting"
    /\ \E connected \in BOOLEAN :
           server' = IF connected THEN [state |-> "listening"] ELSE Exit1
    /\ UNCHANGED <<loginEmail, pc, tool, args, proc, spawned, reply, log,
                   catalog, failed>>
    /\ UNCHANGED functionVars

\* main(): without W3_LOGIN_EMAIL the process exits with status 1 before the
\* request handlers are set and the transport is connected; with it the
\* handlers are set and the server listens once server.connect has resolved
\* (when server.connect rejects, main().catch exits with status 1)
Start ==
    /\ server.state = "starting"
    /\ \E connected \in BOOLEAN :
           server' = IF loginEmail = <<>> THEN Exit1
                     ELSE IF connected THEN [state |-> "listening"]
                     ELSE Exit1
    /\ UNCHANGED <<loginEmail, pc, tool, args, proc, spawned, reply, log,
                   catalog, failed>>
    /\ UNCHANGED functionVars

\* a ListTools handler that lists the tools whose calls have not failed yet
ListToolsForgetful ==
    /\ server.state = "listening"
    /\ catalog' =
           [listed |-> TRUE,
            tools  |-> IF failed
                       THEN {t \in ListToolsTools : t.name # "w3_reset"}
                       ELSE ListToolsTools]
    /\ UNCHANGED <<server, loginEmail, pc, tool, args, proc, spawned, reply,
                   log, failed>>
    /\ UNCHANGED functionVars

\* the ListTools request handler: it reads the exports of schemas.ts and
\* nothing else
ListTools ==
    /\ server.state = "listening"
    /\ catalog' = [listed |-> TRUE, tools |-> ListToolsTools]
    /\ UNCHANGED <<server, loginEmail, pc, tool, args, proc, spawned, reply,
                   log, failed>>
    /\ UNCHANGED functionVars

\* the process exec starts for the command line w3 ${command}
execPromise(command) ==
    [state   |-> "running",
     command |-> <<"w3 ">> \o command,
     out     |-> ExecOutcome("running", <<>>, <<>>)]

\* a CallTool request handler without try/catch: what the handler throws
\* before its first await leaves the request handler as a rejection
CallToolWithoutCatch(c, name, a) ==
    /\ server.state = "listening"
    /\ pc[c] = "idle"
    /\ tool' = [tool EXCEPT ![c] = name]
    /\ args' = [args EXCEPT ![c] = a]
    /\ LET entry == <<Log("info", "call-tool")>>
           h     == HandlerStart(name, a, loginEmail)
       IN  IF name \notin toolHandlers \cup ObjectPrototype
           THEN /\ pc' = [pc EXCEPT ![c] = "replied"]
                /\ reply' = [reply EXCEPT ![c] = ErrorReply(<<"Unknown tool: ", name>>)]
                /\ log' = [log EXCEPT ![c] = entry \o <<Log("error", "unknown-tool")>>]
                /\ UNCHANGED <<proc, spawned>>
           ELSE IF h.kind = "exec"
           THEN /\ pc' = [pc EXCEPT ![c] = "awaiting"]
                /\ proc' = [proc EXCEPT ![c] = execPromise(h.command)]
                /\ spawned' = [spawned EXCEPT ![c] = @ + 1]
                /\ log' = [log EXCEPT ![c] = entry \o h.logs \o runW3CommandLog]
                /\ UNCHANGED reply
           ELSE IF h.kind = "return"
           THEN /\ pc' = [pc EXCEPT ![c] = "replied"]
                /\ reply' = [reply EXCEPT ![c] = h.reply]
                /\ log' = [log EXCEPT ![c] = entry \o h.logs]
                /\ UNCHANGED <<proc, spawned>>
           ELSE /\ pc' = [pc EXCEPT ![c] = "replied"]
                /\ reply' = [reply EXCEPT ![c] = [rejected |-> h.message]]
                /\ log' = [log EXCEPT ![c] =
                              entry \o h.logs \o <<Log("error", "tool-error")>>]
                /\ UNCHANGED <<proc, spawned>>
    /\ UNCHANGED <<server, loginEmail, catalog, failed>>
    /\ UNCHANGED functionVars

\* the CallTool request handler, from the arrival of the request to its
\* first await that waits (or to its return when there is none)
CallTool(c, name, a) ==
    /\ server.state = "listening"
    /\ pc[c] = "idle"
    /\ tool' = [tool EXCEPT ![c] = name]
    /\ args' = [args EXCEPT ![c] = a]
    /\ LET entry == <<Log("info", "call-tool")>>
           h     == HandlerStart(name, a, loginEmail)
       IN  IF name \notin toolHandlers \cup ObjectPrototype
           THEN /\ pc' = [pc EXCEPT ![c] = "replied"]
                /\ reply' = [reply EXCEPT ![c] = ErrorReply(<<"Unknown tool: ", name>>)]
                /\ log' = [log EXCEPT ![c] = entry \o <<Log("error", "unknown-tool")>>]
                /\ UNCHANGED <<proc, spawned>>
           ELSE IF h.kind = "exec"
           THEN /\ pc' = [pc EXCEPT ![c] = "awaiting"]
                /\ proc' = [proc EXCEPT ![c] = execPromise(h.command)]
                /\ spawned' = [spawned EXCEPT ![c] = @ + 1]
                /\ log' = [log EXCEPT ![c] = entry \o h.logs \o runW3CommandLog]
                /\ UNCHANGED reply
           ELSE IF h.kind = "return"
           THEN /\ pc' = [pc EXCEPT ![c] = "replied"]
                /\ reply' = [reply EXCEPT ![c] = h.reply]
                /\ log' = [log EXCEPT ![c] = entry \o h.logs]
                /\ UNCHANGED <<proc, spawned>>
           ELSE /\ pc' = [pc EXCEPT ![c] = "replied"]
                /\ reply' = [reply EXCEPT ![c] = ErrorReply(h.message)]
                /\ log' = [log EXCEPT ![c] =
                              entry \o h.logs \o <<Log("error", "tool-error")>>]
                /\ UNCHANGED <<proc, spawned>>
    /\ UNCHANGED <<server, loginEmail, catalog, failed>>
    /\ UNCHANGED functionVars

\* the subprocess of call c ends (or fails to start) and exec gets its result
ProcessExit(c, out) ==
    /\ proc[c].state = "running"
    /\ proc' = [proc EXCEPT ![c] = [@ EXCEPT !.state = "exited", !.out = out]]
    /\ UNCHANGED <<server, loginEmail, pc, tool, args, spawned, reply, log,
                   catalog, failed>>
    /\ UNCHANGED functionVars

\* a handler that does not wait for the subprocess to end
SettledEarly(p) == p.state \in {"running", "exited"}

\* await execPromise(fullCommand) lets the handler go on once exec has the
\* result of the subprocess
Settled(p) == p.state = "exited"

\* a handler that reads the result of the latest subprocess of the server
\* instead of its own
LatestProcess(c) ==
    IF \E d \in Calls : d # c /\ proc[d].state = "exited"
    THEN proc[CHOOSE d \in Calls : d # c /\ proc[d].state = "exited"]
    ELSE proc[c]

\* the process whose result call c awaits
AwaitedProcess(c) == proc[c]

\* the CallTool request handler with one retry of a failed command
ResumeWithRetry(c) ==
    /\ pc[c] = "awaiting"
    /\ Settled(AwaitedProcess(c))
    /\ spawned[c] < 2
    /\ AwaitedProcess(c).out.status # "ok"
    /\ proc' = [proc EXCEPT ![c] =
                   [@ EXCEPT !.state = "running",
                             !.out = ExecOutcome("running", <<>>, <<>>)]]
    /\ spawned' = [spawned EXCEPT ![c] = @ + 1]
    /\ UNCHANGED <<server, loginEmail, pc, tool, args, reply, log,
                   catalog, failed>>
    /\ UNCHANGED functionVars

\* the rest of runW3Command and of the tool handler, and the try/catch of the
\* CallTool request handler around them
Resume(c) ==
    /\ pc[c] = "awaiting"
    /\ Settled(AwaitedProcess(c))
    /\ LET h == HandlerStart(tool[c], args[c], loginEmail)
           r == runW3Command(h.command, AwaitedProcess(c).out)
           f == HandlerResume(tool[c], args[c], r, loginEmail)
       IN  IF r.threw
           THEN /\ reply' = [reply EXCEPT ![c] = ErrorReply(r.message)]
                /\ log' = [log EXCEPT ![c] =
                              @ \o r.logs \o <<Log("error", "tool-error")>>]
           ELSE IF f.kind = "return"
           THEN /\ reply' = [reply EXCEPT ![c] = f.reply]
                /\ log' = [log EXCEPT ![c] = @ \o r.logs \o f.logs]
           ELSE /\ reply' = [reply EXCEPT ![c] = ErrorReply(f.message)]
                /\ log' = [log EXCEPT ![c] =
                              @ \o r.logs \o f.logs \o <<Log("error", "tool-error")>>]
    /\ pc' = [pc EXCEPT ![c] = "replied"]
    /\ UNCHANGED <<server, loginEmail, tool, args, proc, spawned, catalog,
                   failed>>
    /\ UNCHANGED functionVars

\* the reply has been sent to the client; nothing of the call is kept (failed
\* remembers that an error reply has been sent)
Deliver(c) ==
    /\ pc[c] = "replied"
    /\ pc' = [pc EXCEPT ![c] = "idle"]
    /\ tool' = [tool EXCEPT ![c] = ""]
    /\ args' = [args EXCEPT ![c] = NoArguments]
    /\ proc' = [proc EXCEPT ![c] = NoProcess]
    /\ spawned' = [spawned EXCEPT ![c] = 0]
    /\ reply' = [reply EXCEPT ![c] = NoReply]
    /\ log' = [log EXCEPT ![c] = <<>>]
    /\ failed' = (failed \/ ("isError" \in DOMAIN reply[c] /\ reply[c].isError))
    /\ UNCHANGED <<server, loginEmail, catalog>>
    /\ UNCHANGED functionVars

\* one request at a time, every tool, every argument bag, every outcome
Next ==
    \/ Start
    \/ ListTools
    \/ \E name \in ToolNames : \E a \in ArgumentBags(name) : CallTool(1, name, a)
    \/ \E out \in ExecOutcomes(StdoutSamples) : ProcessExit(1, out)
    \/ Resume(1)
    \/ Deliver(1)

Spec == Init /\ [][Next]_vars

(***************************************************************************)
(* parseNdJson and the listing of handleW3SpaceLs on every short text.     *)
(***************************************************************************)
InitParseNdJson ==
    /\ InitServer
    /\ ndjson \in Texts(NdJsonChars, MaxNdJsonLen)
    /\ parsed = [called |-> FALSE]
    /\ stdout = <<>>
    /\ listing = [called |-> FALSE]

ParseNdJsonCall ==
    /\ ~parsed.called
    /\ parsed' = [called |-> TRUE, result |-> parseNdJson(ndjson)]
    /\ UNCHANGED <<ndjson, stdout, listing>>
    /\ UNCHANGED serverVars

SpecParseNdJson == InitParseNdJson /\ [][ParseNdJsonCall]_vars

InitSpaceLs ==
    /\ InitServer
    /\ ndjson = <<>>
    /\ parsed = [called |-> FALSE]
    /\ stdout \in Texts(ListingChars, MaxListingLen)
    /\ listing = [called |-> FALSE]

SpaceLsCall ==
    /\ ~listing.called
    /\ listing' = [called |-> TRUE, result |-> spaceLsListing(stdout)]
    /\ UNCHANGED <<ndjson, parsed, stdout>>
    /\ UNCHANGED serverVars

SpecSpaceLs == InitSpaceLs /\ [][SpaceLsCall]_vars

(***************************************************************************)
(* Properties of parseNdJson (SpecParseNdJson).                            *)
(***************************************************************************)
\* the lines of a text as they stand, and those with something on them
RawLines(text) == Split(text, "\n")

IsBlank(line) == \A i \in 1..Len(line) : IsWs(line[i])

NonBlankLines(text) == SelectSeq(RawLines(text), LAMBDA line : ~IsBlank(line))

WellFormed(line) == JSONParse(line) # SyntaxError

AllWellFormed(text) ==
    \A i \in 1..Len(NonBlankLines(text)) : WellFormed(NonBlankLines(text)[i])

\* C3: when every non-blank line of the text is well-formed JSON, parseNdJson
\* returns one record per non-blank line, the i-th record being the value of
\* the i-th non-blank line; blank lines give no record.
C3_OneRecordPerLine ==
    (parsed.called /\ AllWellFormed(ndjson)) =>
        /\ ~parsed.result.threw
        /\ Len(parsed.result.records) = Len(NonBlankLines(ndjson))
        /\ \A i \in 1..Len(NonBlankLines(ndjson)) :
               parsed.result.records[i] = JSONParse(NonBlankLines(ndjson)[i])

\* two records read around a blank line
C3_Witness ==
    /\ parsed.called
    /\ AllWellFormed(ndjson)
    /\ Len(NonBlankLines(ndjson)) = 2
    /\ Len(RawLines(ndjson)) > 2
    /\ ~parsed.result.threw
    /\ Len(parsed.result.records) = 2

\* the first non-blank line that is not well-formed JSON
FirstMalformed(text) ==
    CHOOSE i \in 1..Len(NonBlankLines(text)) :
        /\ ~WellFormed(NonBlankLines(text)[i])
        /\ \A j \in 1..(i - 1) : WellFormed(NonBlankLines(text)[j])

\* C4: when a non-blank line is malformed, parseNdJson throws, returns no
\* record at all, and has logged the content of the offending line (the first
\* malformed one) with its number.
C4_MalformedLineRejectsBatch ==
    (parsed.called /\ ~AllWellFormed(ndjson)) =>
        /\ parsed.result.threw
        /\ "records" \notin DOMAIN parsed.result
        /\ \E k \in 1..Len(parsed.result.logs) :
               LET entry == parsed.result.logs[k]
               IN  /\ entry.event = "ndjson-line"
                   /\ entry.index = FirstMalformed(ndjson)
                   /\ Trim(entry.content) =
                          Trim(NonBlankLines(ndjson)[FirstMalformed(ndjson)])

\* a malformed line after a well-formed one: nothing is returned
C4_Witness ==
    /\ parsed.called
    /\ Len(NonBlankLines(ndjson)) >= 2
    /\ WellFormed(NonBlankLines(ndjson)[1])
    /\ ~WellFormed(NonBlankLines(ndjson)[2])
    /\ parsed.result.threw

(***************************************************************************)
(* Properties of the listing of handleW3SpaceLs (SpecSpaceLs).             *)
(***************************************************************************)
\* a text that is one line made of a DID, white space and a name: the places
\* <<i, j>> where the DID ends and the name starts
DidNameSplits(text) ==
    LET body == IF text # <<>> /\ text[Len(text)] = "\n"
                THEN SubSeq(text, 1, Len(text) - 1) ELSE text
        n    == Len(body)
    IN  {t \in (1..n) \X (1..n) :
            /\ \A q \in 1..n : body[q] # "\n"
            /\ t[1] + 1 < t[2]
            /\ body[1] = "did:key:"
            /\ \A q \in 1..t[1] : ~IsWs(body[q])
            /\ \A q \in (t[1] + 1)..(t[2] - 1) : IsWs(body[q])
            /\ ~IsWs(body[t[2]])
            /\ ~IsWs(body[n])}

IsDidNameLine(text) == DidNameSplits(text) # {}

\* C5: on a stdout that is one line made of a DID, white space and a name,
\* the listing is exactly one record: its did is the first token, its name is
\* the remaining tokens (joined by single spaces) and its isCurrent is false.
C5_DidNameLine ==
    (listing.called /\ IsDidNameLine(stdout)) =>
        LET t    == CHOOSE x \in DidNameSplits(stdout) : TRUE
            body == Trim(stdout)
        IN  listing.result.spaces =
                << [did       |-> SubSeq(body, 1, t[1]),
                    name      |-> Join(SplitWs(Drop(body, t[2] - 1)), <<" ">>),
                    isCurrent |-> FALSE] >>

\* the line of the example: a DID, two spaces, a name, a newline
C5_Witness ==
    /\ listing.called
    /\ stdout = <<"did:key:", "a", " ", " ", "a", "\n">>
    /\ Len(listing.result.spaces) = 1
    /\ listing.result.spaces[1].name = <<"a">>

\* C6: a record of the listing has isCurrent true exactly when the line it
\* was read from begins, once trimmed, with "*"; its did does not begin with
\* the "*": it is the first token after the marker.
C6_StarMarksCurrent ==
    listing.called =>
        \A k \in 1..Len(listing.result.spaces) :
            LET line   == Trim(spaceLsLines(stdout)[listing.result.origin[k]])
                record == listing.result.spaces[k]
                marked == line # <<>> /\ line[1] = "*"
            IN  /\ record.isCurrent = marked
                /\ record.did[1] # "*"
                /\ marked => record.did = SplitWs(TrimStart(Tail(line)))[1]

\* a listing with a current space and another one
C6_Witness ==
    /\ listing.called
    /\ Len(listing.result.spaces) = 2
    /\ listing.result.spaces[1].isCurrent
    /\ ~listing.result.spaces[2].isCurrent

(***************************************************************************)
(* Concurrent requests: MaxCalls calls in flight, over a few tools, their  *)
(* smallest argument bags and three outcomes of the subprocess.            *)
(***************************************************************************)
ConcNames == {"w3_login", "w3_ls", "w3_open", UnknownTool}

ConcBags(name) ==
    {a \in ArgumentBags(name) :
        a.type = "object" => Cardinality(DOMAIN a.value) <= 1}

ConcOutcomes ==
    {ExecOutcome("ok", <<"{", "}", "\n", "1", "\n">>, <<>>),
     ExecOutcome("ok", <<"1", "\n", "x">>, <<"warning">>),
     ExecOutcome("exit", <<>>, <<"warning">>)}

NextConc ==
    \/ Start
    \/ ListTools
    \/ \E c \in Calls : \E name \in ConcNames : \E a \in ConcBags(name) :
           CallTool(c, name, a)
    \/ \E c \in Calls : \E out \in ConcOutcomes : ProcessExit(c, out)
    \/ \E c \in Calls : Resume(c)
    \/ \E c \in Calls : Deliver(c)

SpecConc == Init /\ [][NextConc]_vars

(***************************************************************************)
(* Properties of the server (Spec, SpecConc).                              *)
(***************************************************************************)
IsErrorReply(r) == "isError" \in DOMAIN r /\ r.isError

\* the object whose serialisation is the text of the reply
Payload(r) == r.content[1].text.json

\* the arguments are valid for the schema of the tool
ValidArguments(name, a) == safeParse(ToolSchema[name], a).success

\* C1: a call of a tool whose arguments are invalid for the schema of the
\* tool (a missing argument bag included) starts no subprocess and is answered
\* with an error reply.
C1_InvalidArgumentsRejected ==
    \A c \in Calls :
        (pc[c] # "idle" /\ tool[c] \in toolHandlers
                        /\ ~ValidArguments(tool[c], args[c])) =>
            /\ spawned[c] = 0
            /\ pc[c] = "replied"
            /\ IsErrorReply(reply[c])

\* C2: when the subprocess of a call exits non-zero or cannot be started, the
\* reply is an error payload whose message is "Failed to execute 'w3
\* <command>': ..." for the command that was run, and ends with the captured
\* stderr whenever stderr is not empty.
C2_FailedCommandIsError ==
    \A c \in Calls :
        (pc[c] = "replied" /\ proc[c].out.status \in {"exit", "spawn"}) =>
            /\ IsErrorReply(reply[c])
            /\ DOMAIN Payload(reply[c]) = {"error"}
            /\ StartsWith(Payload(reply[c]).error,
                          <<"Failed to execute 'w3 ">> \o Tail(proc[c].command)
                          \o <<"': ">>)
            /\ proc[c].out.stderr # <<>> =>
                   EndsWith(Payload(reply[c]).error,
                            <<"\nStderr: ">> \o proc[c].out.stderr)

\* a failed command with something on stderr has been answered
C2_Witness ==
    \E c \in Calls :
        /\ pc[c] = "replied"
        /\ proc[c].out.status = "exit"
        /\ proc[c].out.stderr # <<>>
        /\ IsErrorReply(reply[c])

\* C7 as claimed: every call of a registered tool with valid arguments that
\* has been answered has started exactly one subprocess, and that subprocess
\* has ended.
C7_ExactlyOneSubprocess ==
    \A c \in Calls :
        (pc[c] = "replied" /\ tool[c] \in toolHandlers
                           /\ ValidArguments(tool[c], args[c])) =>
            spawned[c] = 1 /\ proc[c].state = "exited"

\* the calls that get as far as runW3Command: a registered tool other than
\* w3_open and w3_space_create, whose handler accepts the arguments
\* (handleW3Login accepts everything)
RunsCommand(name, a) ==
    /\ name \in toolHandlers \ {"w3_open", "w3_space_create"}
    /\ name = "w3_login" \/ ValidArguments(name, a)

\* C7, amended: a call starts one subprocess when it gets as far as
\* runW3Command and none otherwise, and when it has started one the reply is
\* produced only after that subprocess has ended.
C7_AtMostOneSubprocess ==
    \A c \in Calls :
        pc[c] # "idle" =>
            /\ spawned[c] = IF RunsCommand(tool[c], args[c]) THEN 1 ELSE 0
            /\ (pc[c] = "replied" /\ spawned[c] = 1) => proc[c].state = "exited"
            /\ spawned[c] = 0 => pc[c] = "replied" /\ proc[c].state = "none"

\* one call answered after its subprocess ended
C7_Witness ==
    \E c \in Calls :
        /\ pc[c] = "replied"
        /\ spawned[c] = 1
        /\ proc[c].state = "exited"
        /\ proc[c].out.status = "ok"

\* C8: no call ever runs the external client more than once, whether its
\* subprocess failed or its output could not be parsed.
C8_NoRetry == \A c \in Calls : spawned[c] <= 1

\* a call answered with an error after its only subprocess failed
C8_Witness ==
    \E c \in Calls :
        /\ pc[c] = "replied"
        /\ spawned[c] = 1
        /\ proc[c].out.status = "exit"
        /\ IsErrorReply(reply[c])

\* C9: two calls of the same tool with the same arguments whose subprocesses
\* gave the same result get the same reply, whatever else is in flight.
C9_ReplyFromOwnCall ==
    \A c, d \in Calls :
        (/\ pc[c] = "replied" /\ pc[d] = "replied"
         /\ tool[c] = tool[d]
         /\ args[c] = args[d]
         /\ proc[c] = proc[d]) => reply[c] = reply[d]

\* two calls that ran a command are answered at the same time
C9_Witness ==
    /\ pc[1] = "replied" /\ pc[2] = "replied"
    /\ tool[1] = tool[2] /\ args[1] = args[2] /\ proc[1] = proc[2]
    /\ spawned[1] = 1

\* the tools that parse the stdout of their command as NDJSON or as JSON
\* (the listing tools, w3_space_info, w3_usage_report, w3_key_create and
\* w3_bridge_generate_tokens only when json is true)
NdJsonTools ==
    {"w3_ls", "w3_delegation_ls", "w3_proof_ls", "w3_can_blob_ls",
     "w3_can_upload_ls", "w3_can_store_ls", "w3_space_info", "w3_usage_report",
     "w3_plan_get", "w3_account_ls"}

JsonTools == {"w3_key_create", "w3_bridge_generate_tokens", "w3_can_filecoin_info"}

JsonRequested(name, a) ==
    LET data == safeParse(ToolSchema[name], a).data
    IN  "json" \in DOMAIN data => data["json"]

\* the stdout of the command of call c reached the parser of its tool and
\* could not be parsed (for w3_space_info: neither as NDJSON nor as JSON)
ParseFailed(c) ==
    /\ tool[c] \in NdJsonTools \cup JsonTools
    /\ ValidArguments(tool[c], args[c])
    /\ JsonRequested(tool[c], args[c])
    /\ proc[c].out.status = "ok"
    /\ tool[c] \in NdJsonTools => ~AllWellFormed(proc[c].out.stdout)
    /\ tool[c] \in JsonTools \cup {"w3_space_info"} =>
           ~WellFormed(proc[c].out.stdout)

ParseFailureLogged(c) ==
    \E k \in 1..Len(log[c]) :
        log[c][k].event \in {"ndjson-line", "ndjson", "parse-failure"}

RawOutputReply(c) ==
    /\ ~IsErrorReply(reply[c])
    /\ "output" \in DOMAIN Payload(reply[c])
    /\ Payload(reply[c]).output = Trim(proc[c].out.stdout)

\* C10: when the stdout of a tool that parses JSON or NDJSON cannot be
\* parsed, the failure is logged and the reply is either the raw stdout or an
\* error reply.
C10_ParseFailureLogged ==
    \A c \in Calls :
        (pc[c] = "replied" /\ ParseFailed(c)) =>
            /\ ParseFailureLogged(c)
            /\ RawOutputReply(c) \/ IsErrorReply(reply[c])

(***************************************************************************)
(* Properties of the protocol surface: replies, startup, the registry and  *)
(* the tool catalog.                                                       *)
(***************************************************************************)
\* a value of the shape { content: [{ type: "text", text }], isError? } whose
\* text is the serialisation of an object
IsTextReply(r) ==
    /\ "content" \in DOMAIN r
    /\ DOMAIN r \subseteq {"content", "isError"}
    /\ Len(r.content) = 1
    /\ r.content[1].type = "text"
    /\ DOMAIN r.content[1].text = {"json"}

\* C11: every reply to a call carries exactly one text part whose text is a
\* serialised JSON object; the reply is flagged isError exactly when that
\* object is an {error: ...} payload, and isError is never present on a
\* success reply.
C11_EveryReplyIsJsonText ==
    \A c \in Calls :
        pc[c] = "replied" =>
            /\ IsTextReply(reply[c])
            /\ IsErrorReply(reply[c]) <=> "error" \in DOMAIN Payload(reply[c])
            /\ "isError" \in DOMAIN reply[c] => reply[c].isError

\* C12: when W3_LOGIN_EMAIL is unset or empty the server never listens: it
\* exits with status 1, and no CallTool request and no ListTools request is
\* ever served.
C12_EmailRequiredAtStartup ==
    loginEmail = <<>> =>
        /\ server.state \in {"starting", "exited"}
        /\ server.state = "exited" => server.status = 1
        /\ \A c \in Calls : pc[c] = "idle" /\ reply[c] = NoReply
        /\ ~catalog.listed

\* the server has exited at startup for want of the email
C12_Witness == loginEmail = <<>> /\ server = Exit1

\* C13: a call whose name is no key of the registry is answered at once with
\* the error reply {error: "Unknown tool: <name>"}, isError true; no handler
\* and no subprocess runs for it.
C13_UnknownToolRejected ==
    \A c \in Calls :
        (pc[c] # "idle" /\ tool[c] \notin toolHandlers) =>
            /\ pc[c] = "replied"
            /\ reply[c] = ErrorReply(<<"Unknown tool: ", tool[c]>>)
            /\ spawned[c] = 0
            /\ proc[c] = NoProcess

\* C14: two responses to ListTools carry the same catalog, whatever was
\* served between them.
C14_CatalogImmutable ==
    [][(catalog.listed /\ catalog'.listed) => catalog'.tools = catalog.tools]_vars

\* the catalog has been listed, an error reply has been sent and a call has
\* been answered with success
C14_Witness ==
    /\ catalog.listed
    /\ failed
    /\ \E c \in Calls : pc[c] = "replied" /\ ~IsErrorReply(reply[c])

\* the arguments carry the confirmation of w3_reset
ResetConfirmed(a) ==
    /\ a.type = "object"
    /\ "confirmReset" \in DOMAIN a.value
    /\ a.value["confirmReset"] = Str(<<"yes-i-am-sure">>)

\* C15: a call of w3_reset runs the command reset when confirmReset is the
\* string yes-i-am-sure; with any other value, or without it, it starts no
\* subprocess and is answered with an error reply.
C15_ResetNeedsConfirmation ==
    \A c \in Calls :
        (pc[c] # "idle" /\ tool[c] = "w3_reset") =>
            IF ResetConfirmed(args[c])
            THEN spawned[c] = 1 /\ proc[c].command = <<"w3 ", "reset">>
            ELSE /\ spawned[c] = 0
                 /\ proc[c] = NoProcess
                 /\ pc[c] = "replied"
                 /\ IsErrorReply(reply[c])

\* a w3_reset with another string has been refused
C15_Witness ==
    \E c \in Calls :
        /\ tool[c] = "w3_reset"
        /\ args[c] = Object([confirmReset |-> Str(<<"yes">>)])
        /\ pc[c] = "replied"
        /\ IsErrorReply(reply[c])
        /\ spawned[c] = 0

\* C16: whatever its arguments, a call of w3_space_create starts no
\* subprocess and is answered with the error that tells the user to run the
\* command by hand.
C16_SpaceCreateNeverRuns ==
    \A c \in Calls :
        (pc[c] # "idle" /\ tool[c] = "w3_space_create") =>
            /\ pc[c] = "replied"
            /\ spawned[c] = 0
            /\ proc[c] = NoProcess
            /\ IsErrorReply(reply[c])
            /\ Payload(reply[c]) =
                   [error |-> <<"w3 space create cannot be run via MCP due to interactive recovery key prompts. Please run this command manually in your terminal.">>]

\* a w3_space_create with valid arguments has been refused
C16_Witness ==
    \E c \in Calls :
        /\ tool[c] = "w3_space_create"
        /\ args[c] = Object([name |-> Str(<<"x">>)])
        /\ pc[c] = "replied"
        /\ IsErrorReply(reply[c])

\* the arguments are an object whose expiration is 0 and that is valid for
\* the schema apart from that
ZeroExpiration(a) ==
    /\ a.type = "object"
    /\ "expiration" \in DOMAIN a.value
    /\ a.value["expiration"] = Num(0)
    /\ ValidArguments("w3_bridge_generate_tokens",
                      Object([k \in DOMAIN a.value \ {"expiration"} |->
                                 a.value[k]]))

\* C17: a call of w3_bridge_generate_tokens with expiration 0 passes
\* validation and runs the command.
C17_ZeroExpirationAccepted ==
    \A c \in Calls :
        (/\ pc[c] # "idle"
         /\ tool[c] = "w3_bridge_generate_tokens"
         /\ ZeroExpiration(args[c])) =>
            /\ spawned[c] = 1
            /\ pc[c] = "replied" => proc[c].state = "exited"

\* C18: whatever the arguments, a call of w3_login runs w3 login <email>
\* with the email of W3_LOGIN_EMAIL.
C18_LoginUsesConfiguredEmail ==
    \A c \in Calls :
        (pc[c] # "idle" /\ tool[c] = "w3_login") =>
            /\ spawned[c] = 1
            /\ proc[c].command = <<"w3 ", "login ">> \o loginEmail

\* a w3_login whose arguments carry another email is running its command
C18_Witness ==
    \E c \in Calls :
        /\ tool[c] = "w3_login"
        /\ args[c] = Object("email" :> Str(<<"other@example.org">>))
        /\ pc[c] = "awaiting"
        /\ proc[c].command = <<"w3 ", "login ", "user@example.org">>

\* the handler of call c has thrown: the arguments failed validation, the
\* tool is w3_space_create, the subprocess failed, or the output of a tool
\* that throws on a parse failure could not be parsed (of the tools that call
\* parseNdJson, w3_usage_report alone falls back to the raw output)
HandlerThrew(c) ==
    /\ tool[c] \in toolHandlers
    /\ \/ tool[c] # "w3_login" /\ ~ValidArguments(tool[c], args[c])
       \/ tool[c] = "w3_space_create"
       \/ proc[c].out.status \in {"exit", "spawn"}
       \/ ParseFailed(c) /\ tool[c] \in NdJsonTools \ {"w3_usage_report"}

\* C19: a call that has been answered has exactly one reply, and a call that
\* has not been answered has none; when the handler threw, the reply is an
\* {error: <message>} payload with isError true; the server goes on
\* listening.
C19_ExceptionsBecomeErrorReplies ==
    \A c \in Calls :
        /\ pc[c] \in {"idle", "awaiting"} => reply[c] = NoReply
        /\ pc[c] = "replied" =>
               /\ reply[c] # NoReply
               /\ server.state = "listening"
               /\ HandlerThrew(c) =>
                      /\ IsTextReply(reply[c])
                      /\ IsErrorReply(reply[c])
                      /\ DOMAIN Payload(reply[c]) = {"error"}

\* after an error reply has been sent, the handler of another call has thrown
\* on invalid arguments and the call has been answered
C19_Witness ==
    /\ failed
    /\ \E c \in Calls :
           /\ pc[c] = "replied"
           /\ tool[c] = "w3_rm"
           /\ ~ValidArguments(tool[c], args[c])
           /\ IsErrorReply(reply[c])

\* C20: the names ListTools lists are the keys of toolHandlers.
C20_CatalogMatchesRegistry ==
    catalog.listed => {t.name : t \in catalog.tools} = toolHandlers

\* the catalog has been listed, with one descriptor for each key
C20_Witness ==
    /\ catalog.listed
    /\ Cardinality(catalog.tools) = Cardinality(toolHandlers)

(***************************************************************************)
(* Properties of the handlers: fallbacks, defaults and command lines.      *)
(***************************************************************************)
\* the tools that answer with the raw stdout when they cannot parse it
FallbackTools ==
    {"w3_key_create", "w3_bridge_generate_tokens", "w3_usage_report",
     "w3_can_filecoin_info", "w3_can_blob_add"}

\* the command of call c succeeded and its stdout is not what the tool
\* parses: no JSON value (NDJSON for w3_usage_report) where JSON was asked
\* for, no "Stored <multihash> (<cid>)" for w3_can_blob_add
Unparsable(c) ==
    IF tool[c] = "w3_can_blob_add"
    THEN /\ ValidArguments(tool[c], args[c])
         /\ proc[c].out.status = "ok"
         /\ StoredMatches(proc[c].out.stdout) = {}
    ELSE ParseFailed(c)

\* C21: for w3_key_create, w3_bridge_generate_tokens, w3_usage_report,
\* w3_can_filecoin_info and w3_can_blob_add, a command that succeeded with a
\* stdout that cannot be parsed is answered with a success reply (no isError)
\* whose output is the trimmed raw stdout.
C21_RawFallback ==
    \A c \in Calls :
        (pc[c] = "replied" /\ tool[c] \in FallbackTools /\ Unparsable(c)) =>
            /\ IsTextReply(reply[c])
            /\ "isError" \notin DOMAIN reply[c]
            /\ RawOutputReply(c)

\* w3_usage_report, asked for JSON, has answered a stdout that is no NDJSON
C21_Witness ==
    \E c \in Calls :
        /\ pc[c] = "replied"
        /\ tool[c] = "w3_usage_report"
        /\ Unparsable(c)
        /\ Payload(reply[c]) = [output |-> <<"1", "\n", "x">>]

\* a w3_space_info call with json true whose command succeeded
SpaceInfoJson(c) ==
    /\ tool[c] = "w3_space_info"
    /\ ValidArguments(tool[c], args[c])
    /\ JsonRequested(tool[c], args[c])
    /\ proc[c].out.status = "ok"

\* C22: with json true, w3_space_info reads its stdout in a fixed order: as
\* NDJSON, and then spaceInfo is the first record ({} when there is none);
\* else as one JSON value, and then spaceInfo is that value; else the reply is
\* an error whose message carries the raw output.
C22_SpaceInfoNormalisation ==
    \A c \in Calls :
        (pc[c] = "replied" /\ SpaceInfoJson(c)) =>
            LET out == proc[c].out.stdout
                lines == NonBlankLines(out)
            IN  IF AllWellFormed(out)
                THEN /\ ~IsErrorReply(reply[c])
                     /\ Payload(reply[c]) =
                            [spaceInfo |-> IF lines = <<>> THEN JsonObject
                                           ELSE JSONParse(lines[1])]
                ELSE IF WellFormed(out)
                THEN /\ ~IsErrorReply(reply[c])
                     /\ Payload(reply[c]) = [spaceInfo |-> JSONParse(out)]
                ELSE reply[c] =
                         ErrorReply(<<"Failed to parse JSON output for w3_space_info. Raw output: ">>
                                    \o out)

\* w3_space_info has answered a stdout that is one JSON value over two lines
\* and no NDJSON
C22_Witness ==
    \E c \in Calls :
        /\ pc[c] = "replied"
        /\ SpaceInfoJson(c)
        /\ ~AllWellFormed(proc[c].out.stdout)
        /\ WellFormed(proc[c].out.stdout)
        /\ Payload(reply[c]) = [spaceInfo |-> JsonObject]

\* the reply to a call of `name` with the arguments a whose command ended
\* with the result out
ReplyOf(name, a, out, email) ==
    LET h == HandlerStart(name, a, email)
        r == runW3Command(h.command, out)
        f == HandlerResume(name, a, r, email)
    IN  IF r.threw THEN ErrorReply(r.message)
        ELSE IF f.kind = "return" THEN f.reply
        ELSE ErrorReply(f.message)

\* what the json argument of a tool is taken to be when the caller leaves it
\* out
JsonDefault ==
    [t \in {"w3_ls", "w3_delegation_ls", "w3_proof_ls", "w3_can_blob_ls",
            "w3_can_upload_ls", "w3_can_store_ls", "w3_space_info",
            "w3_usage_report", "w3_bridge_generate_tokens"} |-> TRUE]
    @@ [t \in {"w3_key_create"} |-> FALSE]

\* the pieces of a command that carry the --json option
JsonFlag ==
    {" --json", "ls --json", "delegation ls --json", "proof ls --json",
     "key create --json"}

HasJsonFlag(command) == \E i \in 1..Len(command) : command[i] \in JsonFlag

\* call c is a valid call of a tool with a json argument that leaves json out
JsonOmitted(c) ==
    /\ tool[c] \in DOMAIN JsonDefault
    /\ ValidArguments(tool[c], args[c])
    /\ "json" \notin DOMAIN args[c].value

\* C23: a call that leaves json out runs the command and gets the reply of
\* the same call with json set to the default of the schema: true (--json is
\* passed and the stdout is parsed) for w3_ls, w3_delegation_ls, w3_proof_ls,
\* w3_can_blob_ls, w3_can_upload_ls, w3_can_store_ls, w3_space_info,
\* w3_usage_report and w3_bridge_generate_tokens, false for w3_key_create.
C23_JsonDefaults ==
    \A c \in Calls :
        (pc[c] # "idle" /\ JsonOmitted(c)) =>
            LET explicit ==
                    Object(args[c].value @@ ("json" :> Bool(JsonDefault[tool[c]])))
            IN  /\ spawned[c] = 1
                /\ proc[c].command =
                       <<"w3 ">> \o HandlerStart(tool[c], explicit, loginEmail).command
                /\ HasJsonFlag(proc[c].command) <=> JsonDefault[tool[c]]
                /\ pc[c] = "replied" =>
                       /\ reply[c] = ReplyOf(tool[c], explicit, proc[c].out, loginEmail)
                       /\ (/\ proc[c].out.status = "ok"
                           /\ ~ParseFailed(c)
                           /\ ~IsErrorReply(reply[c])) =>
                              ("output" \in DOMAIN Payload(reply[c])
                                  <=> ~JsonDefault[tool[c]])

\* w3_ls, called with no json, has run ls --json and answered with the
\* records of the stdout
C23_Witness ==
    \E c \in Calls :
        /\ pc[c] = "replied"
        /\ tool[c] = "w3_ls"
        /\ args[c] = Object(NoFields)
        /\ proc[c].command = <<"w3 ", "ls --json">>
        /\ Payload(reply[c]) = [uploads |-> <<JsonNumber(1), JsonObject>>]

\* the paths, each between double quotes, with one space between two of them
RECURSIVE InQuotes(_)
InQuotes(paths) ==
    IF paths = <<>> THEN <<>>
    ELSE <<"\"">> \o Head(paths) \o <<"\"">>
         \o (IF Len(paths) > 1 THEN <<" ">> ELSE <<>>)
         \o InQuotes(Tail(paths))

\* the caller gave the boolean argument k as true
GivenTrue(a, k) ==
    /\ k \in DOMAIN a.value
    /\ a.value[k].type = "boolean"
    /\ a.value[k].value

\* the caller gave an empty paths array
EmptyPaths(a) ==
    /\ a.type = "object"
    /\ "paths" \in DOMAIN a.value
    /\ a.value["paths"] = Arr(<<>>)

\* C24: w3_up runs up followed by the given paths, each in double quotes and
\* in the order given, then --no-wrap exactly when noWrap is true, then
\* --hidden exactly when hidden is true; a call with an empty paths array is
\* rejected before any subprocess starts.
C24_UpCommand ==
    \A c \in Calls :
        (pc[c] # "idle" /\ tool[c] = "w3_up") =>
            /\ ValidArguments(tool[c], args[c]) =>
                   /\ spawned[c] = 1
                   /\ proc[c].command =
                          <<"w3 ", "up ">>
                          \o InQuotes(args[c].value["paths"].value)
                          \o (IF GivenTrue(args[c], "noWrap")
                              THEN <<" --no-wrap">> ELSE <<>>)
                          \o (IF GivenTrue(args[c], "hidden")
                              THEN <<" --hidden">> ELSE <<>>)
            /\ EmptyPaths(args[c]) =>
                   /\ spawned[c] = 0
                   /\ pc[c] = "replied"
                   /\ IsErrorReply(reply[c])

\* w3_up is uploading two paths with noWrap and hidden
C24_Witness ==
    \E c \in Calls :
        /\ tool[c] = "w3_up"
        /\ pc[c] = "awaiting"
        /\ proc[c].command =
               <<"w3 ", "up ", "\"", "x", "\"", " ", "\"", "y", "\"",
                 " --no-wrap", " --hidden">>

\* the command of call c exited with status zero and wrote to stderr
StderrOnSuccess(c) ==
    /\ pc[c] = "replied"
    /\ spawned[c] = 1
    /\ proc[c].out.status = "ok"
    /\ proc[c].out.stderr # <<>>

CommandText ==
    "w3 " :> <<"w3", " ">>
    @@ " --can '" :> <<" ", "--can", " ", "'">>
    @@ " --cursor " :> <<" ", "--cursor", " ">>
    @@ " --size " :> <<" ", "--size", " ">>
    @@ " --expiration " :> <<" ", "--expiration", " ">>
    @@ " --json" :> <<" ", "--json">>
    @@ "bridge generate-tokens" :> <<"bridge", " ", "generate-tokens">>
    @@ "can access claim " :> <<"can", " ", "access", " ", "claim", " ">>
    @@ "can blob add " :> <<"can", " ", "blob", " ", "add", " ">>
    @@ "can blob ls" :> <<"can", " ", "blob", " ", "ls">>
    @@ "can blob rm " :> <<"can", " ", "blob", " ", "rm", " ">>
    @@ "can filecoin info " :> <<"can", " ", "filecoin", " ", "info", " ">>
    @@ "can index add " :> <<"can", " ", "index", " ", "add", " ">>
    @@ "can store add " :> <<"can", " ", "store", " ", "add", " ">>
    @@ "can store ls" :> <<"can", " ", "store", " ", "ls">>
    @@ "can store rm " :> <<"can", " ", "store", " ", "rm", " ">>
    @@ "can upload add " :> <<"can", " ", "upload", " ", "add", " ">>
    @@ "can upload ls" :> <<"can", " ", "upload", " ", "ls">>
    @@ "can upload rm " :> <<"can", " ", "upload", " ", "rm", " ">>
    @@ "coupon create " :> <<"coupon", " ", "create", " ">>
    @@ " --pre" :> <<" ", "--pre">>
    @@ " --shards" :> <<" ", "--shards">>
    @@ " --base64" :> <<" ", "--base64">>
    @@ " --name " :> <<" ", "--name", " ">>
    @@ " --output " :> <<" ", "--output", " ">>
    @@ " --type " :> <<" ", "--type", " ">>
    @@ "delegation create " :> <<"delegation", " ", "create", " ">>
    @@ "delegation ls" :> <<"delegation", " ", "ls">>
    @@ "delegation ls --json" :> <<"delegation", " ", "ls", " ", "--json">>
    @@ " --proof " :> <<" ", "--proof", " ">>
    @@ "delegation revoke " :> <<"delegation", " ", "revoke", " ">>
    @@ "key create" :> <<"key", " ", "create">>
    @@ "key create --json" :> <<"key", " ", "create", " ", "--json">>
    @@ "login " :> <<"login", " ">>
    @@ "ls --json" :> <<"ls", " ", "--json">>
    @@ " --account " :> <<" ", "--account", " ">>
    @@ "plan get" :> <<"plan", " ", "get">>
    @@ "proof add " :> <<"proof", " ", "add", " ">>
    @@ "proof ls" :> <<"proof", " ", "ls">>
    @@ "proof ls --json" :> <<"proof", " ", "ls", " ", "--json">>
    @@ "rm " :> <<"rm", " ">>
    @@ "space add " :> <<"space", " ", "add", " ">>
    @@ " --space " :> <<" ", "--space", " ">>
    @@ "space info" :> <<"space", " ", "info">>
    @@ "space ls" :> <<"space", " ", "ls">>
    @@ "space provision " :> <<"space", " ", "provision", " ">>
    @@ "space use " :> <<"space", " ", "use", " ">>
    @@ " --hidden" :> <<" ", "--hidden">>
    @@ " --no-wrap" :> <<" ", "--no-wrap">>
    @@ "up " :> <<"up", " ">>
    @@ "usage report" :> <<"usage", " ", "report">>
    @@ "account ls" :> <<"account", " ", "ls">>

Pieces(chunk) ==
    IF chunk \in DOMAIN CommandText THEN CommandText[chunk] ELSE <<chunk>>

RECURSIVE CommandLine(_)
CommandLine(command) ==
    IF command = <<>> THEN <<>>
    ELSE Pieces(Head(command)) \o CommandLine(Tail(command))

\* the subcommand of w3 each tool runs (w3_open and w3_space_create run none)
Subcommand ==
    [w3_login                   |-> <<"login">>,
     w3_space_ls                |-> <<"space", "ls">>,
     w3_space_use               |-> <<"space", "use">>,
     w3_up                      |-> <<"up">>,
     w3_ls                      |-> <<"ls">>,
     w3_rm                      |-> <<"rm">>,
     w3_space_info              |-> <<"space", "info">>,
     w3_space_add               |-> <<"space", "add">>,
     w3_delegation_create       |-> <<"delegation", "create">>,
     w3_delegation_ls           |-> <<"delegation", "ls">>,
     w3_delegation_revoke       |-> <<"delegation", "revoke">>,
     w3_proof_add               |-> <<"proof", "add">>,
     w3_proof_ls                |-> <<"proof", "ls">>,
     w3_key_create              |-> <<"key", "create">>,
     w3_bridge_generate_tokens  |-> <<"bridge", "generate-tokens">>,
     w3_can_blob_add            |-> <<"can", "blob", "add">>,
     w3_can_blob_ls             |-> <<"can", "blob", "ls">>,
     w3_can_blob_rm             |-> <<"can", "blob", "rm">>,
     w3_can_index_add           |-> <<"can", "index", "add">>,
     w3_can_upload_add          |-> <<"can", "upload", "add">>,
     w3_can_upload_ls           |-> <<"can", "upload", "ls">>,
     w3_can_upload_rm           |-> <<"can", "upload", "rm">>,
     w3_plan_get                |-> <<"plan", "get">>,
     w3_account_ls              |-> <<"account", "ls">>,
     w3_space_provision         |-> <<"space", "provision">>,
     w3_coupon_create           |-> <<"coupon", "create">>,
     w3_usage_report            |-> <<"usage", "report">>,
     w3_can_access_claim        |-> <<"can", "access", "claim">>,
     w3_can_store_add           |-> <<"can", "store", "add">>,
     w3_can_store_ls            |-> <<"can", "store", "ls">>,
     w3_can_store_rm            |-> <<"can", "store", "rm">>,
     w3_can_filecoin_info       |-> <<"can", "filecoin", "info">>,
     w3_reset                   |-> <<"reset">>]

\* w3 and the words of the subcommand, one blank between two words
RECURSIVE Blanked(_)
Blanked(words) ==
    IF words = <<>> THEN <<>> ELSE <<" ", Head(words)>> \o Blanked(Tail(words))

SubcommandLine(name) == <<"w3">> \o Blanked(Subcommand[name])

\* the line starts with the words of `name` and goes on, if at all, with a
\* blank
RunsSubcommand(line, name) ==
    /\ StartsWith(line, SubcommandLine(name))
    /\ Len(line) > Len(SubcommandLine(name)) =>
           line[Len(SubcommandLine(name)) + 1] = " "

ShBlank == {" ", "\t"}

ShOperator == {";", "&", "|", "\n"}

ShStart ==
    [mode |-> "plain", word |-> <<>>, inWord |-> FALSE, words |-> <<>>,
     commands |-> <<>>, substitution |-> FALSE]

\* the words read so far, the one being read included
ShWords(st) == IF st.inWord THEN Append(st.words, st.word) ELSE st.words

ShCommands(st) ==
    IF ShWords(st) = <<>> THEN st.commands ELSE Append(st.commands, ShWords(st))

\* sh reads the piece ch, which `next` follows
ShStep(st, ch, next) ==
    CASE st.mode = "plain" /\ ch \in ShBlank ->
             [st EXCEPT !.words = ShWords(st), !.word = <<>>, !.inWord = FALSE]
      [] st.mode = "plain" /\ ch \in ShOperator ->
             [st EXCEPT !.commands = ShCommands(st), !.words = <<>>,
                        !.word = <<>>, !.inWord = FALSE]
      [] st.mode = "plain" /\ ch = "'" ->
             [st EXCEPT !.mode = "single", !.inWord = TRUE]
      [] st.mode = "plain" /\ ch = "\"" ->
             [st EXCEPT !.mode = "double", !.inWord = TRUE]
      [] st.mode = "single" /\ ch = "'" -> [st EXCEPT !.mode = "plain"]
      [] st.mode = "double" /\ ch = "\"" -> [st EXCEPT !.mode = "plain"]
      [] OTHER ->
             [st EXCEPT !.word = Append(@, ch), !.inWord = TRUE,
                        !.substitution =
                            @ \/ (st.mode # "single" /\ ch = "$" /\ next = "(")]

RECURSIVE ShRead(_, _, _)
ShRead(line, i, st) ==
    IF i > Len(line) THEN st
    ELSE ShRead(line, i + 1,
                ShStep(st, line[i], IF i < Len(line) THEN line[i + 1] ELSE ""))

\* the commands sh runs for the line, each a sequence of words; whether a
\* command substitution runs as well; whether every quote is closed
Sh(line) ==
    LET st == ShRead(line, 1, ShStart)
    IN  [commands     |-> ShCommands(st),
         substitution |-> st.substitution,
         closed       |-> st.mode = "plain"]

\* argument values with a blank, an operator, quotes and a substitution
ShellTexts ==
    { <<"x">>,
      <<"x", " ", "y">>,
      <<"x", ";", "y">>,
      <<"\"", ";", "y", "\"">>,
      <<"'", ";", "y", "'">>,
      <<"$", "(", "y", ")">> }

\* tools that put a value on the line bare, between double quotes and
\* between single quotes
ShellNames == {"w3_rm", "w3_space_use", "w3_up", "w3_bridge_generate_tokens"}

\* a valid call of the tool with the text v as its value
ShellBag(name, v) ==
    CASE name = "w3_rm"        -> Object("cid" :> Str(v))
      [] name = "w3_space_use" -> Object("spaceDid" :> Str(<<"did:key:">> \o v))
      [] name = "w3_up"        -> Object("paths" :> Arr(<<v>>))
      [] name = "w3_bridge_generate_tokens" ->
             Object("capabilities" :> Arr(<<v>>))

\* the value the command gets for the text v
ShellValue(name, v) == IF name = "w3_space_use" THEN <<"did:key:">> \o v ELSE v

NextShell ==
    \/ Start
    \/ \E name \in ShellNames : \E v \in ShellTexts :
           CallTool(1, name, ShellBag(name, v))
    \/ \E out \in ExecOutcomes(StdoutSamples) : ProcessExit(1, out)
    \/ Resume(1)
    \/ Deliver(1)

SpecShell == Init /\ [][NextShell]_vars

\* the words of the command line of the call of `name` with the value "x",
\* which sh reads as one command of plain words
PlainWords(name) ==
    Sh(CommandLine(<<"w3 ">>
                   \o HandlerStart(name, ShellBag(name, <<"x">>), <<>>).command))
        .commands[1]

\* sh runs the line as one command and nothing else, and the words of that
\* command are those of the call with the value "x", with the value v as one
\* word in the place of "x"
OneInvocation(line, name, v) ==
    /\ Sh(line).closed
    /\ ~Sh(line).substitution
    /\ Len(Sh(line).commands) = 1
    /\ Sh(line).commands[1] =
           [i \in 1..Len(PlainWords(name)) |->
               IF PlainWords(name)[i] = ShellValue(name, <<"x">>)
               THEN ShellValue(name, v)
               ELSE PlainWords(name)[i]]

\* C26: an argument value is passed as data only: whatever text a valid call
\* gives as a value, the command line is a single invocation of w3 with that
\* text as one argument; quotes, blanks and the operators of the shell in the
\* value add no argument and no command.
C26_ValuesAreData ==
    \A c \in Calls : \A v \in ShellTexts :
        (/\ spawned[c] >= 1
         /\ tool[c] \in ShellNames
         /\ args[c] = ShellBag(tool[c], v)) =>
            OneInvocation(CommandLine(proc[c].command), tool[c], v)

====
